---- MODULE Spec2Model ----
(***************************************************************************)
(* pgbouncer_exporter: the result-set-to-metric translation engine of      *)
(* collector.go (value coercion, descriptor compilation, the collectors    *)
(* and the scrape cycle Exporter.Collect).                                 *)
(*                                                                         *)
(* Conventions of the model                                                *)
(*   - a Go string / []byte is a sequence of one-character strings; the    *)
(*     element xFF stands for a byte that occurs in no valid UTF-8 text;   *)
(*   - a float64 is an exact fraction [nan, num, den] (den > 0), so the    *)
(*     products v * factor are exact; NaN is the record with nan = TRUE;   *)
(*   - a value scanned into an interface{} (a driver.Value) is a record    *)
(*     [t, n, d, s]: t the dynamic type, n/d the number, s the text;       *)
(*   - an error is a string, "nil" for the nil error.                      *)
(***************************************************************************)
EXTENDS Integers, Sequences, FiniteSets, TLC

VARIABLES
    db,         \* what pgbouncer answers to each query of the current cycle
    metricMap,  \* Exporter.metricMap, the compiled descriptor map
    pc,         \* position of the running call
    ch,         \* the samples sent on the metric channel, in order
    up,         \* Collect's local liveness candidate
    errMap,     \* queryNamespaceMappings' namespaceErrors
    todo,       \* namespaces the range loop of queryNamespaceMappings has not visited
    queries,    \* the queries issued on the connection, in order
    ret,        \* what the last queryNamespaceMapping call returned
    arg,        \* argument of a direct call of a conversion
    res,        \* result of that call
    threads,    \* the goroutines calling into the exporter, each with its locals
    conn,       \* the one connection of the pool: who holds it, what was asked on it
    cache       \* CachedExporter.cache, the MetricCache with its mutex

vars == <<db, metricMap, pc, ch, up, errMap, todo, queries, ret, arg, res,
          threads, conn, cache>>

-----------------------------------------------------------------------------
(* Bounds of the model *)

\* longest text handed to a conversion
MaxText == 3
\* most rows of a generic result set
MaxRows == 2

-----------------------------------------------------------------------------
(* Text *)

Digits == <<"0", "1", "2", "3", "4", "5", "6", "7", "8", "9">>

IsDigit(c) == \E i \in 1..10 : Digits[i] = c

DigitVal(c) == (CHOOSE i \in 1..10 : Digits[i] = c) - 1

\* the byte that makes a text invalid UTF-8
xFF == "xFF"

\* utf8.ValidString
ValidString(s) == \A i \in 1..Len(s) : s[i] # xFF

RECURSIVE Itoa(_)
\* strconv.Itoa
Itoa(n) ==
    IF n < 0 THEN <<"-">> \o Itoa(-n)
    ELSE IF n < 10 THEN <<Digits[n + 1]>>
    ELSE Itoa(n \div 10) \o <<Digits[(n % 10) + 1]>>

RECURSIVE DigitsToInt(_)
DigitsToInt(s) ==
    IF Len(s) = 0 THEN 0
    ELSE 10 * DigitsToInt(SubSeq(s, 1, Len(s) - 1)) + DigitVal(s[Len(s)])

RECURSIVE Pow10(_)
Pow10(k) == IF k = 0 THEN 1 ELSE 10 * Pow10(k - 1)

-----------------------------------------------------------------------------
(* float64 *)

NaN == [nan |-> TRUE, num |-> 0, den |-> 1]

Float(n, d) == [nan |-> FALSE, num |-> n, den |-> d]

\* the float64 product a * b
FMul(a, b) ==
    IF a.nan \/ b.nan THEN NaN
    ELSE Float(a.num * b.num, a.den * b.den)

\* strconv.ParseFloat(s, 64) on decimal text: [+-]digits[.digits], one digit
\* at least; err is TRUE when s is no number
ParseFloat(s) ==
    LET signed == Len(s) > 0 /\ s[1] \in {"+", "-"}
        body   == IF signed THEN Tail(s) ELSE s
        dots   == {i \in 1..Len(body) : body[i] = "."}
        digs   == SelectSeq(body, IsDigit)
        wellFormed ==
            /\ \A i \in 1..Len(body) : IsDigit(body[i]) \/ body[i] = "."
            /\ Cardinality(dots) <= 1
            /\ Len(digs) >= 1
        frac   == IF dots = {} THEN 0 ELSE Len(body) - (CHOOSE i \in dots : TRUE)
        mag    == DigitsToInt(digs)
    IN  IF wellFormed
        THEN [err |-> FALSE,
              val |-> Float(IF signed /\ s[1] = "-" THEN -mag ELSE mag, Pow10(frac))]
        ELSE [err |-> TRUE, val |-> Float(0, 1)]

\* fmt.Sprintf("%f", v): fixed point, six decimals
FormatF(v) ==
    LET a    == IF v.num < 0 THEN -v.num ELSE v.num
        ip   == a \div v.den
        fp   == ((a % v.den) * 1000000) \div v.den
        fps  == Itoa(fp)
        pad  == [i \in 1..(6 - Len(fps)) |-> "0"]
    IN  (IF v.num < 0 THEN <<"-">> ELSE <<>>) \o Itoa(ip) \o <<".">> \o pad \o fps

-----------------------------------------------------------------------------
(* driver.Value: what rows.Scan stores in an interface{} *)

Int64(k)     == [t |-> "int64",   n |-> k, d |-> 1, s |-> <<>>]
Float64(n, d) == [t |-> "float64", n |-> n, d |-> d, s |-> <<>>]
Str(s)       == [t |-> "string",  n |-> 0, d |-> 1, s |-> s]
Bytes(s)     == [t |-> "bytes",   n |-> 0, d |-> 1, s |-> s]
Time(unix)   == [t |-> "time",    n |-> unix, d |-> 1, s |-> <<>>]
Bool(b)      == [t |-> "bool",    n |-> IF b THEN 1 ELSE 0, d |-> 1, s |-> <<>>]
Nil          == [t |-> "nil",     n |-> 0, d |-> 1, s |-> <<>>]

\* Variant of dbToFloat64 in which the []byte case forgets the factor.
dbToFloat64NoByteFactor(t, factor) ==
    CASE t.t = "int64"   -> [val |-> FMul(Float(t.n, 1), factor), ok |-> TRUE]
      [] t.t = "float64" -> [val |-> FMul(Float(t.n, t.d), factor), ok |-> TRUE]
      [] t.t = "time"    -> [val |-> Float(t.n, 1), ok |-> TRUE]
      [] t.t = "bytes"   ->
            LET p == ParseFloat(t.s)
            IN  IF p.err THEN [val |-> NaN, ok |-> FALSE]
                ELSE [val |-> p.val, ok |-> TRUE]
      [] t.t = "string"  ->
            LET p == ParseFloat(t.s)
            IN  IF p.err THEN [val |-> NaN, ok |-> FALSE]
                ELSE [val |-> FMul(p.val, factor), ok |-> TRUE]
      [] t.t = "nil"     -> [val |-> NaN, ok |-> TRUE]
      [] OTHER           -> [val |-> NaN, ok |-> FALSE]

\* Variant of dbToFloat64 in which a nil is reported like malformed input.
dbToFloat64NilNotOk(t, factor) ==
    CASE t.t = "int64"   -> [val |-> FMul(Float(t.n, 1), factor), ok |-> TRUE]
      [] t.t = "float64" -> [val |-> FMul(Float(t.n, t.d), factor), ok |-> TRUE]
      [] t.t = "time"    -> [val |-> Float(t.n, 1), ok |-> TRUE]
      [] t.t = "bytes"   ->
            LET p == ParseFloat(t.s)
            IN  IF p.err THEN [val |-> NaN, ok |-> FALSE]
                ELSE [val |-> FMul(p.val, factor), ok |-> TRUE]
      [] t.t = "string"  ->
            LET p == ParseFloat(t.s)
            IN  IF p.err THEN [val |-> NaN, ok |-> FALSE]
                ELSE [val |-> FMul(p.val, factor), ok |-> TRUE]
      [] OTHER           -> [val |-> NaN, ok |-> FALSE]

\* dbToFloat64: (float64, ok) of a scanned value and a scale factor
dbToFloat64(t, factor) ==
    CASE t.t = "int64"   -> [val |-> FMul(Float(t.n, 1), factor), ok |-> TRUE]
      [] t.t = "float64" -> [val |-> FMul(Float(t.n, t.d), factor), ok |-> TRUE]
      [] t.t = "time"    -> [val |-> Float(t.n, 1), ok |-> TRUE]
      [] t.t = "bytes"   ->
            LET p == ParseFloat(t.s)
            IN  IF p.err THEN [val |-> NaN, ok |-> FALSE]
                ELSE [val |-> FMul(p.val, factor), ok |-> TRUE]
      [] t.t = "string"  ->
            LET p == ParseFloat(t.s)
            IN  IF p.err THEN [val |-> NaN, ok |-> FALSE]
                ELSE [val |-> FMul(p.val, factor), ok |-> TRUE]
      [] t.t = "nil"     -> [val |-> NaN, ok |-> TRUE]
      [] OTHER           -> [val |-> NaN, ok |-> FALSE]

-----------------------------------------------------------------------------
(* The metric schema registry and the descriptor compiler *)

LABEL   == "LABEL"
COUNTER == "COUNTER"
GAUGE   == "GAUGE"

ColumnMapping(usage, metric, factor) ==
    [usage |-> usage, metric |-> metric, factor |-> factor]

\* metricMaps, restricted to the columns the model's result sets use
metricMaps ==
    "databases" :>
        ( "name"      :> ColumnMapping(LABEL, "N/A", Float(1, 1))
       @@ "pool_size" :> ColumnMapping(GAUGE, "pool_size", Float(1, 1)) )
 @@ "stats" :>
        ( "database"          :> ColumnMapping(LABEL, "N/A", Float(1, 1))
       @@ "total_query_count" :> ColumnMapping(COUNTER, "queries_pooled_total", Float(1, 1))
       @@ "total_query_time"  :> ColumnMapping(COUNTER, "queries_duration_seconds_total",
                                               Float(1, 1000000)) )
 @@ "pools" :>
        ( "database"  :> ColumnMapping(LABEL, "N/A", Float(1, 1))
       @@ "user"      :> ColumnMapping(LABEL, "N/A", Float(1, 1))
       @@ "cl_active" :> ColumnMapping(GAUGE, "client_active_connections", Float(1, 1))
       @@ "maxwait"   :> ColumnMapping(GAUGE, "client_maxwait_seconds", Float(1, 1)) )

\* Variant of ValueType that gives every column the gauge kind.
ValueTypeAlwaysGauge(usage) == "GaugeValue"

\* prometheus.CounterValue / prometheus.GaugeValue of a usage
ValueType(usage) == IF usage = COUNTER THEN "CounterValue" ELSE "GaugeValue"

\* the orders in which a range loop can visit the set S
Perms(S) ==
    {p \in [1..Cardinality(S) -> S] : \A i, j \in 1..Cardinality(S) : p[i] = p[j] => i = j}

LabelColumns(mappings) == {c \in DOMAIN mappings : mappings[c].usage = LABEL}

ValueColumns(mappings) == {c \in DOMAIN mappings : mappings[c].usage \in {COUNTER, GAUGE}}

\* the label lists the first loop of makeDescMap can build, one per namespace
LabelOrders(maps) ==
    {o \in [DOMAIN maps -> UNION {Perms(LabelColumns(maps[n])) : n \in DOMAIN maps}] :
        \A n \in DOMAIN maps : o[n] \in Perms(LabelColumns(maps[n]))}

\* makeDescMap, for the order in which its first loop met the label columns;
\* the conversion closure is the factor it captured
makeDescMap(maps, namespace, order) ==
    [n \in DOMAIN maps |->
        [columnMappings |->
            [c \in ValueColumns(maps[n]) |->
                [discard    |-> FALSE,
                 vtype      |-> ValueType(maps[n][c].usage),
                 desc       |-> [name |-> <<namespace, n, maps[n][c].metric>>,
                                 labels |-> order[n]],
                 conversion |-> maps[n][c].factor]],
         labels |-> order[n]]]

\* the namespace prefix of every metric name
namespace == "pgbouncer"

\* the descriptor maps NewExporter can end up with
CompiledMaps == {makeDescMap(metricMaps, namespace, o) : o \in LabelOrders(metricMaps)}

\* metricMapping.conversion(in)
Conversion(metricMapping, in) == dbToFloat64(in, metricMapping.conversion)

-----------------------------------------------------------------------------
(* Values the model feeds to the conversions *)

CoerceChars == {"1", "-", "+", ".", "a"}

TextsUpTo(chars, k) == UNION {[1..i -> chars] : i \in 0..k}

CoerceCells ==
    {Int64(k) : k \in {-2, 0, 3}}
    \cup {Float64(5, 2), Float64(-1, 4)}
    \cup {Time(0), Time(7)}
    \cup {Nil, Bool(TRUE), Bool(FALSE)}
    \cup {Str(s) : s \in TextsUpTo(CoerceChars, MaxText)}
    \cup {Bytes(s) : s \in TextsUpTo(CoerceChars, MaxText)}

\* scale factors: those of the registry (1, 1e-6) and one more
Factors == {Float(1, 1), Float(1, 1000000), Float(3, 1)}

NoArg == [kind |-> "none", ns |-> "", col |-> "", cell |-> Nil, factor |-> Float(1, 1)]
NoRes == [val |-> NaN, ok |-> FALSE]

\* no goroutine has called into the exporter
NoThreads == [t \in {} |-> 0]

\* the connection of the pool, free and unused: db.SetMaxOpenConns(1)
NoConn == [holder |-> "", log |-> <<>>]

\* the MetricCache NewCachedExporter allocates; readers counts the holders of
\* mu.RLock, lastUpdated = 0 is the zero time
NoCache == [metrics |-> <<>>, lastUpdated |-> 0, updating |-> FALSE, readers |-> 0]

-----------------------------------------------------------------------------
(* Samples and errors *)

\* prometheus.MustNewConstMetric(desc, vtype, value, labelValues...)
Sample(desc, vtype, value, labelValues) ==
    [desc |-> desc, vtype |-> vtype, value |-> value, labels |-> labelValues]

NoErr == "nil"

\* a non-fatal error of queryNamespaceMapping: what failed, on which column
NonFatal(kind, column) == [kind |-> kind, column |-> column]

\* the label value that replaces an unusable one
Invalid == <<"<", "i", "n", "v", "a", "l", "i", "d", ">">>

-----------------------------------------------------------------------------
(* queryNamespaceMapping *)

\* A result set of "SHOW <namespace>;": qerr, db.Query fails; cerr,
\* rows.Columns fails; cols, the column names; rows, the rows that scan; end,
\* what follows them: "eof", a further row whose Scan fails ("scanerr"), or
\* an iteration error reported by rows.Err ("rowserr").

\* what a loop hands on: the samples sent and the errors appended
Nothing == [samples |-> <<>>, errs |-> <<>>]

\* first a, then b
Then(a, b) == [samples |-> a.samples \o b.samples, errs |-> a.errs \o b.errs]

\* the label value and the errors of the loop from the next column on, after
\* the errors of this column
AfterErrs(errs, rest) == [value |-> rest.value, errs |-> errs \o rest.errs]

\* the text of a label the type switch accepts
LabelText(v) ==
    CASE v.t \in {"int", "int64"} -> Itoa(v.n)
      [] v.t = "float64" -> FormatF(Float(v.n, v.d))
      [] v.t = "string" -> v.s
      [] OTHER -> <<>>

\* Variant of LabelCell that reports text that is not valid UTF-8 and keeps it
\* as the label value.
LabelCellKeepRaw(columnName, v) ==
    IF v.t \notin {"int", "int64", "float64", "string", "nil"}
    THEN [value |-> Invalid, errs |-> <<NonFatal("label type", columnName)>>]
    ELSE IF ~ValidString(LabelText(v))
    THEN [value |-> LabelText(v), errs |-> <<NonFatal("label utf8", columnName)>>]
    ELSE [value |-> LabelText(v), errs |-> <<>>]

\* the body of "if columnName == label": the type switch and the UTF-8 test
\* on the value v of the column: [value, errs]
LabelCell(columnName, v) ==
    IF v.t \notin {"int", "int64", "float64", "string", "nil"}
    THEN [value |-> Invalid, errs |-> <<NonFatal("label type", columnName)>>]
    ELSE IF ~ValidString(LabelText(v))
    THEN [value |-> Invalid, errs |-> <<NonFatal("label utf8", columnName)>>]
    ELSE [value |-> LabelText(v), errs |-> <<>>]

RECURSIVE LabelScan(_, _, _, _, _)
\* the tail of the inner loop after column idx gave one
LabelScanOn(one, label, columnNames, columnData, idx) ==
    AfterErrs(one.errs, LabelScan(label, columnNames, columnData, idx + 1, one.value))

\* the inner loop of the label resolution, from column idx on, cur being the
\* label value so far: [value, errs], the label value at the end of the loop
\* and the non-fatal errors appended on the way
LabelScan(label, columnNames, columnData, idx, cur) ==
    IF idx > Len(columnNames) THEN [value |-> cur, errs |-> <<>>]
    ELSE IF columnNames[idx] # label
    THEN LabelScan(label, columnNames, columnData, idx + 1, cur)
    ELSE LabelScanOn(LabelCell(columnNames[idx], columnData[idx]),
                     label, columnNames, columnData, idx)

\* label values and errors of one label, then those of the later labels
LabelsThen(one, rest) ==
    [labelValues |-> <<one.value>> \o rest.labelValues, errs |-> one.errs \o rest.errs]

\* the same with the value stored at the far end
LabelsThenReversed(one, rest) ==
    [labelValues |-> rest.labelValues \o <<one.value>>, errs |-> one.errs \o rest.errs]

RECURSIVE ResolveLabelsReversed(_, _, _, _)
\* Variant of ResolveLabels that fills the label values from the last
\* position to the first.
ResolveLabelsReversed(labels, columnNames, columnData, i) ==
    IF i > Len(labels) THEN [labelValues |-> <<>>, errs |-> <<>>]
    ELSE LabelsThenReversed(LabelScan(labels[i], columnNames, columnData, 1, <<>>),
                            ResolveLabelsReversed(labels, columnNames, columnData, i + 1))

RECURSIVE ResolveLabels(_, _, _, _)
\* the outer loop of the label resolution, from label i on: [labelValues,
\* errs]
ResolveLabels(labels, columnNames, columnData, i) ==
    IF i > Len(labels) THEN [labelValues |-> <<>>, errs |-> <<>>]
    ELSE LabelsThen(LabelScan(labels[i], columnNames, columnData, 1, <<>>),
                    ResolveLabels(labels, columnNames, columnData, i + 1))

\* the sample or the error of a column, by the result conv of its conversion
Converted(metricMapping, columnName, conv, labelValues) ==
    IF ~conv.ok
    THEN [samples |-> <<>>, errs |-> <<NonFatal("parse", columnName)>>]
    ELSE [samples |-> <<Sample(metricMapping.desc, metricMapping.vtype,
                               conv.val, labelValues)>>,
          errs    |-> <<>>]

\* Variant of EmitColumn that reports a column without a compiled mapping.
EmitColumnUnknownError(mapping, columnName, v, labelValues) ==
    IF columnName \notin DOMAIN mapping.columnMappings
    THEN [samples |-> <<>>, errs |-> <<NonFatal("parse", columnName)>>]
    ELSE IF mapping.columnMappings[columnName].discard THEN Nothing
    ELSE Converted(mapping.columnMappings[columnName], columnName,
                   Conversion(mapping.columnMappings[columnName], v), labelValues)

\* Variant of EmitColumn that passes over a nil without a sample.
EmitColumnSkipNull(mapping, columnName, v, labelValues) ==
    IF columnName \notin DOMAIN mapping.columnMappings THEN Nothing
    ELSE IF mapping.columnMappings[columnName].discard \/ v.t = "nil" THEN Nothing
    ELSE Converted(mapping.columnMappings[columnName], columnName,
                   Conversion(mapping.columnMappings[columnName], v), labelValues)

\* the body of the loop over the columns of a row, on the column columnName
\* holding v
EmitColumn(mapping, columnName, v, labelValues) ==
    IF columnName \notin DOMAIN mapping.columnMappings THEN Nothing
    ELSE IF mapping.columnMappings[columnName].discard THEN Nothing
    ELSE Converted(mapping.columnMappings[columnName], columnName,
                   Conversion(mapping.columnMappings[columnName], v), labelValues)

\* first a, and b only when a appended no error
ThenUnlessError(a, b) == IF a.errs # <<>> THEN a ELSE Then(a, b)

RECURSIVE EmitColumnsBreak(_, _, _, _, _)
\* Variant of EmitColumns that leaves the row at the first column whose
\* conversion fails.
EmitColumnsBreak(mapping, columnNames, columnData, labelValues, idx) ==
    IF idx > Len(columnNames) THEN Nothing
    ELSE ThenUnlessError(
            EmitColumn(mapping, columnNames[idx], columnData[idx], labelValues),
            EmitColumnsBreak(mapping, columnNames, columnData, labelValues, idx + 1))

RECURSIVE EmitColumns(_, _, _, _, _)
\* the loop over the columns of one row, from column idx on: [samples, errs]
EmitColumns(mapping, columnNames, columnData, labelValues, idx) ==
    IF idx > Len(columnNames) THEN Nothing
    ELSE Then(EmitColumn(mapping, columnNames[idx], columnData[idx], labelValues),
              EmitColumns(mapping, columnNames, columnData, labelValues, idx + 1))

\* the value loop of a row after its label resolution lab
ScanRowWith(lab, mapping, columnNames, columnData) ==
    Then([samples |-> <<>>, errs |-> lab.errs],
         EmitColumns(mapping, columnNames, columnData, lab.labelValues, 1))

\* one iteration of the rows.Next loop on a row that scans: the samples it
\* sends and the non-fatal errors it appends
ScanRow(mapping, columnNames, columnData) ==
    ScanRowWith(ResolveLabels(mapping.labels, columnNames, columnData, 1),
                mapping, columnNames, columnData)

\* Variant of ScanRows that leaves the loop after the first row.
ScanRowsFirstOnly(mapping, columnNames, rows, k) ==
    IF k > Len(rows) THEN Nothing ELSE ScanRow(mapping, columnNames, rows[k])

RECURSIVE ScanRows(_, _, _, _)
\* the rows.Next loop from row k on
ScanRows(mapping, columnNames, rows, k) ==
    IF k > Len(rows) THEN Nothing
    ELSE Then(ScanRow(mapping, columnNames, rows[k]),
              ScanRows(mapping, columnNames, rows, k + 1))

\* Variant of Returned that returns the error of rows.Err() as the fatal
\* error.
ReturnedRowsErrFatal(body, end) ==
    IF end \in {"scanerr", "rowserr"}
    THEN [samples |-> body.samples, nonfatal |-> <<>>,
          fatal |-> "error retrieving rows"]
    ELSE [samples |-> body.samples, nonfatal |-> body.errs, fatal |-> NoErr]

\* Variant of Returned that returns the non-fatal errors gathered so far
\* along with the fatal error of a scan.
ReturnedKeepErrs(body, end) ==
    IF end = "scanerr"
    THEN [samples |-> body.samples, nonfatal |-> body.errs,
          fatal |-> "error retrieving rows"]
    ELSE [samples  |-> body.samples,
          nonfatal |-> IF end = "rowserr"
                       THEN Append(body.errs, NonFatal("rows", ""))
                       ELSE body.errs,
          fatal    |-> NoErr]

\* what queryNamespaceMapping gives once the rows loop, with outcome body,
\* is left by end
Returned(body, end) ==
    IF end = "scanerr"
    THEN [samples |-> body.samples, nonfatal |-> <<>>,
          fatal |-> "error retrieving rows"]
    ELSE [samples  |-> body.samples,
          nonfatal |-> IF end = "rowserr"
                       THEN Append(body.errs, NonFatal("rows", ""))
                       ELSE body.errs,
          fatal    |-> NoErr]

\* queryNamespaceMapping on the answer r: the samples it sends, and
\* ([]error, error)
queryNamespaceMapping(r, mapping) ==
    IF r.qerr
    THEN [samples |-> <<>>, nonfatal |-> <<>>, fatal |-> "error running query on database"]
    ELSE IF r.cerr
    THEN [samples |-> <<>>, nonfatal |-> <<>>, fatal |-> "error retrieving column list"]
    ELSE Returned(ScanRows(mapping, r.cols, r.rows, 1), r.end)

-----------------------------------------------------------------------------
(* The fixed descriptors *)

\* listsMap: list name -> metric name
listsMap ==
    "databases" :> "databases" @@ "users" :> "users" @@ "pools" :> "pools"
 @@ "free_clients" :> "free_clients" @@ "used_clients" :> "used_clients"
 @@ "login_clients" :> "login_clients" @@ "free_servers" :> "free_servers"
 @@ "used_servers" :> "used_servers" @@ "dns_names" :> "cached_dns_names"
 @@ "dns_zones" :> "cached_dns_zones" @@ "dns_queries" :> "in_flight_dns_queries"

\* configMap: config key -> metric name
configMap ==
    "max_client_conn" :> "max_client_connections"
 @@ "max_user_connections" :> "max_user_connections"

FixedDesc(subsystem, name, labels) ==
    [name |-> <<namespace, subsystem, name>>, labels |-> labels]

bouncerVersionDesc == FixedDesc("version", "info", <<"version">>)

scrapeSuccessDesc == FixedDesc("", "up", <<>>)

serverCountDescription ==
    FixedDesc("", "server_connections", <<"user", "database", "state", "addr", "close_needed">>)

-----------------------------------------------------------------------------
(* The specialized collectors.  Each takes the answer r to its query and     *)
(* yields the samples it sends and the error it returns.  The rows of r     *)
(* hold the fields as rows.Scan stores them; r.end is as for the generic    *)
(* result sets.                                                             *)

RECURSIVE VersionRows(_, _, _)
VersionRows(rows, k, samples) ==
    IF k > Len(rows) THEN samples
    ELSE VersionRows(rows, k + 1,
            Append(samples, Sample(bouncerVersionDesc, "GaugeValue", Float(1, 1), <<rows[k]>>)))

\* queryVersion
queryVersion(r) ==
    IF r.qerr THEN [samples |-> <<>>, err |-> "error getting pgbouncer version"]
    ELSE IF r.cerr THEN [samples |-> <<>>, err |-> "error retrieving column list for version"]
    ELSE IF r.cols # <<"version">>
    THEN [samples |-> <<>>, err |-> "show version didn't return version column"]
    ELSE [samples |-> VersionRows(r.rows, 1, <<>>),
          err     |-> IF r.end = "scanerr" THEN "scan" ELSE NoErr]

RECURSIVE ListRowsNewestFirst(_, _, _)
\* Variant of ListRows that hands the samples over newest first.
ListRowsNewestFirst(r, k, samples) ==
    IF k > Len(r.rows)
    THEN [samples |-> samples,
          err |-> IF r.end = "scanerr" THEN "error retrieving SHOW LISTS rows" ELSE NoErr]
    ELSE IF ParseFloat(r.rows[k].items).err
    THEN [samples |-> samples, err |-> "error parsing SHOW LISTS column"]
    ELSE IF r.rows[k].list \in DOMAIN listsMap
    THEN ListRowsNewestFirst(r, k + 1,
            <<Sample(FixedDesc("", listsMap[r.rows[k].list], <<>>),
                     "GaugeValue", ParseFloat(r.rows[k].items).val, <<>>)>> \o samples)
    ELSE ListRowsNewestFirst(r, k + 1, samples)

RECURSIVE ListRows(_, _, _)
\* the rows.Next loop of queryShowLists from row k on
ListRows(r, k, samples) ==
    IF k > Len(r.rows)
    THEN [samples |-> samples,
          err |-> IF r.end = "scanerr" THEN "error retrieving SHOW LISTS rows" ELSE NoErr]
    ELSE
        LET value == ParseFloat(r.rows[k].items)
        IN  IF value.err
            THEN [samples |-> samples, err |-> "error parsing SHOW LISTS column"]
            ELSE IF r.rows[k].list \in DOMAIN listsMap
            THEN ListRows(r, k + 1,
                    Append(samples, Sample(FixedDesc("", listsMap[r.rows[k].list], <<>>),
                                           "GaugeValue", value.val, <<>>)))
            ELSE ListRows(r, k + 1, samples)

\* queryShowLists
queryShowLists(r) ==
    IF r.qerr THEN [samples |-> <<>>, err |-> "error running SHOW LISTS on database"]
    ELSE IF r.cerr \/ r.ncols # 2
    THEN [samples |-> <<>>, err |-> "error retrieving columns list from SHOW LISTS"]
    ELSE ListRows(r, 1, <<>>)

RECURSIVE ConfigRowsParseFirst(_, _, _)
\* Variant of ConfigRows that parses the value of a row before it looks at
\* the key.
ConfigRowsParseFirst(r, k, samples) ==
    IF k > Len(r.rows) /\ r.end # "scanerr" THEN [samples |-> samples, err |-> NoErr]
    ELSE IF r.ncols \notin {3, 4}
    THEN [samples |-> samples, err |-> "invalid number of SHOW CONFIG  columns"]
    ELSE IF k > Len(r.rows)
    THEN [samples |-> samples, err |-> "error retrieving SHOW CONFIG rows"]
    ELSE IF ParseFloat(r.rows[k].values).err
    THEN [samples |-> samples, err |-> "error parsing SHOW CONFIG column"]
    ELSE IF r.rows[k].key \notin DOMAIN configMap
    THEN ConfigRowsParseFirst(r, k + 1, samples)
    ELSE ConfigRowsParseFirst(r, k + 1,
            Append(samples, Sample(FixedDesc("config", configMap[r.rows[k].key], <<>>),
                                   "GaugeValue", ParseFloat(r.rows[k].values).val, <<>>)))

RECURSIVE ConfigRowsSkipBad(_, _, _)
\* Variant of ConfigRows that passes over an allow-listed row whose value is
\* no number and goes on with the next row.
ConfigRowsSkipBad(r, k, samples) ==
    IF k > Len(r.rows) /\ r.end # "scanerr" THEN [samples |-> samples, err |-> NoErr]
    ELSE IF r.ncols \notin {3, 4}
    THEN [samples |-> samples, err |-> "invalid number of SHOW CONFIG  columns"]
    ELSE IF k > Len(r.rows)
    THEN [samples |-> samples, err |-> "error retrieving SHOW CONFIG rows"]
    ELSE IF r.rows[k].key \notin DOMAIN configMap \/ ParseFloat(r.rows[k].values).err
    THEN ConfigRowsSkipBad(r, k + 1, samples)
    ELSE ConfigRowsSkipBad(r, k + 1,
            Append(samples, Sample(FixedDesc("config", configMap[r.rows[k].key], <<>>),
                                   "GaugeValue", ParseFloat(r.rows[k].values).val, <<>>)))

RECURSIVE ConfigRows(_, _, _)
\* the rows.Next loop of queryShowConfig from row k on
ConfigRows(r, k, samples) ==
    IF k > Len(r.rows) /\ r.end # "scanerr" THEN [samples |-> samples, err |-> NoErr]
    ELSE IF r.ncols \notin {3, 4}
    THEN [samples |-> samples, err |-> "invalid number of SHOW CONFIG  columns"]
    ELSE IF k > Len(r.rows)
    THEN [samples |-> samples, err |-> "error retrieving SHOW CONFIG rows"]
    ELSE IF r.rows[k].key \notin DOMAIN configMap
    THEN ConfigRows(r, k + 1, samples)
    ELSE
        LET value == ParseFloat(r.rows[k].values)
        IN  IF value.err
            THEN [samples |-> samples, err |-> "error parsing SHOW CONFIG column"]
            ELSE ConfigRows(r, k + 1,
                    Append(samples, Sample(FixedDesc("config", configMap[r.rows[k].key], <<>>),
                                           "GaugeValue", value.val, <<>>)))

\* queryShowConfig
queryShowConfig(r) ==
    IF r.qerr THEN [samples |-> <<>>, err |-> "error running SHOW CONFIG on database"]
    ELSE IF r.cerr
    THEN [samples |-> <<>>, err |-> "error retrieving columns list from SHOW CONFIG"]
    ELSE ConfigRows(r, 1, <<>>)

\* strconv.FormatBool
FormatBool(b) == IF b THEN <<"t", "r", "u", "e">> ELSE <<"f", "a", "l", "s", "e">>

\* counterKey{user, database, state, addr, port, closeNeeded}
counterKey(row) ==
    [user |-> row.user, database |-> row.database, state |-> row.state,
     addr |-> row.addr, port |-> row.port, closeNeeded |-> row.closeNeeded]

\* the scan variables of queryShowServers before any Scan has filled them
ZeroServerRow ==
    [user |-> <<>>, database |-> <<>>, state |-> <<>>, addr |-> <<>>,
     port |-> 0, closeNeeded |-> 0]

\* the keys counted by the rows.Next loop of queryShowServers: with 19 or 20
\* columns each row is scanned; with any other count no Scan runs and each
\* row counts under the variables as they are
ServerKeys(r) ==
    IF r.ncols \in {19, 20}
    THEN [k \in 1..Len(r.rows) |-> counterKey(r.rows[k])]
    ELSE [k \in 1..(Len(r.rows) + IF r.end = "scanerr" THEN 1 ELSE 0) |->
             counterKey(ZeroServerRow)]

\* Variant of ServerCounters that keeps 1 for every key.
ServerCountersOnes(keys) ==
    [key \in {keys[k] : k \in 1..Len(keys)} |-> 1]

\* counters, a map from key to count
ServerCounters(keys) ==
    [key \in {keys[k] : k \in 1..Len(keys)} |->
        Cardinality({k \in 1..Len(keys) : keys[k] = key})]

\* Variant of queryShowServers that has sent the samples of the rows counted
\* so far when a Scan fails.
queryShowServersSendsCounted(r, order) ==
    IF r.qerr THEN [samples |-> <<>>, err |-> "error running SHOW SERVERS on database"]
    ELSE IF r.cerr
    THEN [samples |-> <<>>, err |-> "error retrieving columns list from SHOW CONFIG"]
    ELSE
        LET counters == ServerCounters(ServerKeys(r))
        IN  [samples |->
                [i \in 1..Len(order) |->
                    Sample(serverCountDescription, "GaugeValue",
                           Float(counters[order[i]], 1),
                           <<order[i].user, order[i].database, order[i].state,
                             order[i].addr \o <<"_">> \o Itoa(order[i].port),
                             FormatBool(order[i].closeNeeded = 1)>>)],
             err |-> IF r.ncols \in {19, 20} /\ r.end = "scanerr"
                     THEN "error retrieving SHOW SERVERS rows" ELSE NoErr]

\* queryShowServers, for the order in which the final range loop visits the
\* counters
queryShowServers(r, order) ==
    IF r.qerr THEN [samples |-> <<>>, err |-> "error running SHOW SERVERS on database"]
    ELSE IF r.cerr
    THEN [samples |-> <<>>, err |-> "error retrieving columns list from SHOW CONFIG"]
    ELSE IF r.ncols \in {19, 20} /\ r.end = "scanerr"
    THEN [samples |-> <<>>, err |-> "error retrieving SHOW SERVERS rows"]
    ELSE
        LET counters == ServerCounters(ServerKeys(r))
        IN  [samples |->
                [i \in 1..Len(order) |->
                    Sample(serverCountDescription, "GaugeValue",
                           Float(counters[order[i]], 1),
                           <<order[i].user, order[i].database, order[i].state,
                             order[i].addr \o <<"_">> \o Itoa(order[i].port),
                             FormatBool(order[i].closeNeeded = 1)>>)],
             err |-> NoErr]

\* the orders in which the final loop of queryShowServers can run on answer r
ServerOrders(r) ==
    IF r.qerr \/ r.cerr THEN {<<>>}
    ELSE Perms(DOMAIN ServerCounters(ServerKeys(r)))

-----------------------------------------------------------------------------
(* What pgbouncer can answer *)

Answer(qerr, cerr, cols, ncols, rows, end) ==
    [qerr |-> qerr, cerr |-> cerr, cols |-> cols, ncols |-> ncols, rows |-> rows, end |-> end]

QueryFails == Answer(TRUE, FALSE, <<>>, 0, <<>>, "eof")

ColumnsFail == Answer(FALSE, TRUE, <<>>, 0, <<>>, "eof")

Rows(cols, rows, end) == Answer(FALSE, FALSE, cols, Len(cols), rows, end)

KeyValueRows(ncols, rows, end) == Answer(FALSE, FALSE, <<>>, ncols, rows, end)

Ends == {"eof", "scanerr", "rowserr"}

VersionAnswers ==
    { QueryFails,
      Rows(<<"version">>, << <<"1", ".", "2">> >>, "eof"),
      Rows(<<"pgbouncer">>, << <<"1", ".", "2">> >>, "eof") }

ListAnswers ==
    { QueryFails,
      KeyValueRows(2, << [list |-> "databases", items |-> <<"1">>],
                         [list |-> "mystery", items |-> <<"0">>],
                         [list |-> "dns_queries", items |-> <<"-", "1">>] >>, "eof"),
      KeyValueRows(2, << [list |-> "users", items |-> <<"2">>],
                         [list |-> "pools", items |-> <<"a">>] >>, "eof") }

ConfigAnswers ==
    { QueryFails,
      KeyValueRows(4, << [key |-> "max_client_conn", values |-> <<"1", "9">>],
                         [key |-> "auth_type", values |-> <<"m", "d", "5">>] >>, "eof"),
      KeyValueRows(3, << [key |-> "max_user_connections", values |-> <<"a">>],
                         [key |-> "max_client_conn", values |-> <<"1">>] >>, "eof") }

ServerRow(user, port) ==
    [user |-> user, database |-> <<"d">>, state |-> <<"a">>, addr |-> <<"h">>,
     port |-> port, closeNeeded |-> 0]

ServerAnswers ==
    { QueryFails,
      KeyValueRows(20, << ServerRow(<<"u">>, 6432), ServerRow(<<"u">>, 6432) >>, "eof"),
      KeyValueRows(19, << ServerRow(<<"u">>, 6432), ServerRow(<<"v">>, 6432) >>, "eof"),
      KeyValueRows(20, << ServerRow(<<"u">>, 6432) >>, "scanerr") }

\* the column layouts of "SHOW <namespace>;"
Layouts(n) ==
    CASE n = "pools" -> { <<"database", "user", "cl_active">>,
                          <<"cl_active", "maxwait", "user", "extra">> }
      [] n = "stats" -> { <<"database", "total_query_time">> }
      [] OTHER       -> { <<"name", "pool_size">> }

\* the values a column of a namespace can hold
CellsFor(n, col) ==
    CASE n = "pools" /\ col = "database" ->
            { Str(<<"p">>), Str(<<"p", xFF>>) }
      [] n = "pools" /\ col = "user" ->
            { Str(<<"u">>), Str(<<xFF, "u">>) }
      [] n = "stats" /\ col = "database" ->
            { Str(<<"p">>), Str(<<xFF>>) }
      [] n = "stats" /\ col = "total_query_time" ->
            { Int64(2), Bytes(<<"3">>), Str(<<"a">>), Nil }
      [] col = "name" ->
            { Str(<<xFF>>), Nil, Int64(12), Float64(5, 2), Bytes(<<"p">>) }
      [] col \in {"maxwait", "pool_size"} ->
            { Int64(2), Str(<<"a">>) }
      [] col = "extra" ->
            { Int64(9) }
      [] OTHER ->
            { Int64(2), Str(<<"a">>), Nil }

\* the rows of the column layout cols
RowsOf(n, cols) ==
    LET cells == UNION {CellsFor(n, cols[i]) : i \in 1..Len(cols)}
    IN  {row \in [1..Len(cols) -> cells] : \A i \in 1..Len(cols) : row[i] \in CellsFor(n, cols[i])}

\* the one-row result set of a namespace in the scrape cycles of the model
CycleColumns(n) ==
    CASE n = "pools" -> <<"database", "user", "cl_active">>
      [] n = "stats" -> <<"database", "total_query_time">>
      [] OTHER       -> <<"name", "pool_size">>

CycleRow(n) ==
    CASE n = "pools" -> <<Str(<<"p">>), Str(<<"u">>), Int64(2)>>
      [] n = "stats" -> <<Str(<<"p">>), Int64(5)>>
      [] OTHER       -> <<Str(<<"p">>), Str(<<"a">>)>>

\* the answers to "SHOW <namespace>;" a scrape cycle of the model meets
CycleAnswers(n) ==
    { QueryFails,
      Rows(CycleColumns(n), <<CycleRow(n)>>, "eof"),
      Rows(CycleColumns(n), <<CycleRow(n)>>, "scanerr"),
      Rows(CycleColumns(n), <<CycleRow(n)>>, "rowserr") }

-----------------------------------------------------------------------------
(* Exporter.Collect, one scrape cycle *)

Query(what) == <<"SHOW", what>>

NoAnswers == [q \in {} |-> QueryFails]

NoErrors == [n \in {} |-> NoErr]

NoRet == [nonfatal |-> <<>>, fatal |-> NoErr]

\* the error branch of a stage of Collect
MarkDown(err) == IF err # NoErr THEN 0 ELSE up

\* Collect is entered, on a new exporter or after an earlier cycle has
\* returned: var up = 1.0
CollectEnter ==
    /\ pc \in {"idle", "done"}
    /\ pc' = "version"
    /\ up' = 1
    /\ ch' = <<>>
    /\ db' = NoAnswers
    /\ queries' = <<>>
    /\ errMap' = NoErrors
    /\ todo' = {}
    /\ ret' = NoRet
    /\ UNCHANGED <<metricMap, arg, res, threads, conn, cache>>

\* Variant of CollectVersion that gives up the cycle when the version query
\* fails: it goes straight to the liveness sample.
CollectVersionAbort ==
    /\ pc = "version"
    /\ \E r \in VersionAnswers :
        LET out == queryVersion(r)
        IN  /\ ch' = ch \o out.samples
            /\ up' = MarkDown(out.err)
            /\ db' = db @@ ("VERSION" :> r)
            /\ pc' = IF out.err # NoErr THEN "namespaces" ELSE "lists"
    /\ queries' = Append(queries, Query("VERSION"))
    /\ UNCHANGED <<metricMap, errMap, todo, ret, arg, res, threads, conn, cache>>

\* err := queryVersion(ch, e.db)
CollectVersion ==
    /\ pc = "version"
    /\ \E r \in VersionAnswers :
        LET out == queryVersion(r)
        IN  /\ ch' = ch \o out.samples
            /\ up' = MarkDown(out.err)
            /\ db' = db @@ ("VERSION" :> r)
    /\ queries' = Append(queries, Query("VERSION"))
    /\ pc' = "lists"
    /\ UNCHANGED <<metricMap, errMap, todo, ret, arg, res, threads, conn, cache>>

\* queryShowLists(ch, e.db, e.logger)
CollectLists ==
    /\ pc = "lists"
    /\ \E r \in ListAnswers :
        LET out == queryShowLists(r)
        IN  /\ ch' = ch \o out.samples
            /\ up' = MarkDown(out.err)
            /\ db' = db @@ ("LISTS" :> r)
    /\ queries' = Append(queries, Query("LISTS"))
    /\ pc' = "config"
    /\ UNCHANGED <<metricMap, errMap, todo, ret, arg, res, threads, conn, cache>>

\* queryShowConfig(ch, e.db, e.logger)
CollectConfig ==
    /\ pc = "config"
    /\ \E r \in ConfigAnswers :
        LET out == queryShowConfig(r)
        IN  /\ ch' = ch \o out.samples
            /\ up' = MarkDown(out.err)
            /\ db' = db @@ ("CONFIG" :> r)
    /\ queries' = Append(queries, Query("CONFIG"))
    /\ pc' = "servers"
    /\ UNCHANGED <<metricMap, errMap, todo, ret, arg, res, threads, conn, cache>>

\* queryShowServers(ch, e.db, e.logger); then queryNamespaceMappings is
\* entered: namespaceErrors := make(map[string]error)
CollectServers ==
    /\ pc = "servers"
    /\ \E r \in ServerAnswers : \E order \in ServerOrders(r) :
        LET out == queryShowServers(r, order)
        IN  /\ ch' = ch \o out.samples
            /\ up' = MarkDown(out.err)
            /\ db' = db @@ ("SERVERS" :> r)
    /\ queries' = Append(queries, Query("SERVERS"))
    /\ pc' = "namespaces"
    /\ errMap' = NoErrors
    /\ todo' = DOMAIN metricMap
    /\ UNCHANGED <<metricMap, ret, arg, res, threads, conn, cache>>

\* Variant of CollectNamespace that leaves the range loop at the first fatal
\* error.
CollectNamespaceBreak ==
    /\ pc = "namespaces"
    /\ \E n \in todo : \E r \in CycleAnswers(n) :
        LET out == queryNamespaceMapping(r, metricMap[n])
        IN  /\ ch' = ch \o out.samples
            /\ errMap' = IF out.fatal # NoErr THEN (n :> out.fatal) @@ errMap ELSE errMap
            /\ ret' = [nonfatal |-> out.nonfatal, fatal |-> out.fatal]
            /\ db' = db @@ (n :> r)
            /\ queries' = Append(queries, Query(n))
            /\ todo' = IF out.fatal # NoErr THEN {} ELSE todo \ {n}
    /\ UNCHANGED <<pc, up, metricMap, arg, res, threads, conn, cache>>

\* one iteration of the range loop of queryNamespaceMappings, on the
\* namespace the loop visits next
CollectNamespace ==
    /\ pc = "namespaces"
    /\ \E n \in todo : \E r \in CycleAnswers(n) :
        LET out == queryNamespaceMapping(r, metricMap[n])
        IN  /\ ch' = ch \o out.samples
            /\ errMap' = IF out.fatal # NoErr THEN (n :> out.fatal) @@ errMap ELSE errMap
            /\ ret' = [nonfatal |-> out.nonfatal, fatal |-> out.fatal]
            /\ db' = db @@ (n :> r)
            /\ queries' = Append(queries, Query(n))
            /\ todo' = todo \ {n}
    /\ UNCHANGED <<pc, up, metricMap, arg, res, threads, conn, cache>>

\* Variant of UpValue that skips the test len(errMap) > 0.
UpValueOnlyAllFailed(candidate, nErrors, nNamespaces) ==
    IF nErrors = nNamespaces THEN 0 ELSE candidate

\* Variant of UpValue that skips the test len(errMap) == len(e.metricMap).
UpValueOnlyAnyFailed(candidate, nErrors, nNamespaces) ==
    IF nErrors > 0 THEN 0 ELSE candidate

\* the liveness value after the two tests on errMap
UpValue(candidate, nErrors, nNamespaces) ==
    LET afterAny == IF nErrors > 0 THEN 0 ELSE candidate
    IN  IF nErrors = nNamespaces THEN 0 ELSE afterAny

\* Variant of CollectUp that returns without the liveness sample when every
\* namespace failed.
CollectUpSilent ==
    /\ pc = "namespaces"
    /\ todo = {}
    /\ up' = UpValue(up, Cardinality(DOMAIN errMap), Cardinality(DOMAIN metricMap))
    /\ ch' = IF Cardinality(DOMAIN errMap) = Cardinality(DOMAIN metricMap)
             THEN ch
             ELSE Append(ch, Sample(scrapeSuccessDesc, "GaugeValue", Float(up', 1), <<>>))
    /\ pc' = "done"
    /\ UNCHANGED <<db, metricMap, errMap, todo, queries, ret, arg, res, threads, conn, cache>>

\* queryNamespaceMappings has returned: the two tests on errMap, and the
\* liveness sample
CollectUp ==
    /\ pc = "namespaces"
    /\ todo = {}
    /\ up' = UpValue(up, Cardinality(DOMAIN errMap), Cardinality(DOMAIN metricMap))
    /\ ch' = Append(ch, Sample(scrapeSuccessDesc, "GaugeValue", Float(up', 1), <<>>))
    /\ pc' = "done"
    /\ UNCHANGED <<db, metricMap, errMap, todo, queries, ret, arg, res, threads, conn, cache>>

Init ==
    /\ pc = "idle"
    /\ metricMap \in CompiledMaps
    /\ db = NoAnswers
    /\ ch = <<>>
    /\ up = 1
    /\ errMap = NoErrors
    /\ todo = {}
    /\ queries = <<>>
    /\ ret = NoRet
    /\ arg = NoArg
    /\ res = NoRes
    /\ threads = NoThreads
    /\ conn = NoConn
    /\ cache = NoCache

Next ==
    \/ CollectEnter
    \/ CollectVersion
    \/ CollectLists
    \/ CollectConfig
    \/ CollectServers
    \/ CollectNamespace
    \/ CollectUp

Spec == Init /\ [][Next]_vars

\* a table of result sets with no entry, and what makeDescMap compiles it to
NoMetricMaps == [n \in {} |-> [c \in {} |-> ColumnMapping(GAUGE, "", Float(1, 1))]]

EmptyCompiledMaps ==
    {makeDescMap(NoMetricMaps, namespace, o) : o \in LabelOrders(NoMetricMaps)}

\* an Exporter whose metricMap field was compiled from either table
InitAnyTable ==
    /\ pc = "idle"
    /\ metricMap \in CompiledMaps \cup EmptyCompiledMaps
    /\ db = NoAnswers
    /\ ch = <<>>
    /\ up = 1
    /\ errMap = NoErrors
    /\ todo = {}
    /\ queries = <<>>
    /\ ret = NoRet
    /\ arg = NoArg
    /\ res = NoRes
    /\ threads = NoThreads
    /\ conn = NoConn
    /\ cache = NoCache

SpecAnyTable == InitAnyTable /\ [][Next]_vars

-----------------------------------------------------------------------------
(* queryNamespaceMapping called on its own, as testQueryNamespaceMapping    *)
(* does, on every answer of at most MaxRows rows                            *)

InitNS ==
    /\ pc = "ns call"
    /\ metricMap \in CompiledMaps
    /\ \E n \in DOMAIN metricMaps :
        /\ arg = [kind |-> "ns", ns |-> n, col |-> "", cell |-> Nil, factor |-> Float(1, 1)]
        /\ \/ \E r \in {QueryFails, ColumnsFail} : db = (n :> r)
           \/ \E cols \in Layouts(n) : \E k \in 0..MaxRows :
              \E rows \in [1..k -> RowsOf(n, cols)] : \E end \in Ends :
                db = (n :> Rows(cols, rows, end))
    /\ ch = <<>>
    /\ up = 1
    /\ errMap = NoErrors
    /\ todo = {}
    /\ queries = <<>>
    /\ ret = NoRet
    /\ res = NoRes
    /\ threads = NoThreads
    /\ conn = NoConn
    /\ cache = NoCache

\* queryNamespaceMapping(ch, db, namespace, metricMap[namespace], logger)
CallQueryNamespaceMapping ==
    /\ pc = "ns call"
    /\ LET out == queryNamespaceMapping(db[arg.ns], metricMap[arg.ns])
       IN  /\ ch' = ch \o out.samples
           /\ ret' = [nonfatal |-> out.nonfatal, fatal |-> out.fatal]
    /\ queries' = Append(queries, Query(arg.ns))
    /\ pc' = "ns done"
    /\ UNCHANGED <<db, metricMap, up, errMap, todo, arg, res, threads, conn, cache>>

NextNS == CallQueryNamespaceMapping

SpecNS == InitNS /\ [][NextNS]_vars

-----------------------------------------------------------------------------
(* The conversions called on their own: dbToFloat64 with a factor, and the  *)
(* conversion closure of a compiled column                                  *)

InitCoerce ==
    /\ pc = "conv call"
    /\ metricMap \in CompiledMaps
    /\ \/ \E c \in CoerceCells, f \in Factors :
            arg = [kind |-> "dbToFloat64", ns |-> "", col |-> "", cell |-> c, factor |-> f]
       \/ \E n \in DOMAIN metricMaps : \E col \in ValueColumns(metricMaps[n]) :
          \E c \in CoerceCells :
            arg = [kind |-> "conversion", ns |-> n, col |-> col, cell |-> c,
                   factor |-> metricMaps[n][col].factor]
    /\ db = NoAnswers
    /\ ch = <<>>
    /\ up = 1
    /\ errMap = NoErrors
    /\ todo = {}
    /\ queries = <<>>
    /\ ret = NoRet
    /\ res = NoRes
    /\ threads = NoThreads
    /\ conn = NoConn
    /\ cache = NoCache

\* dbToFloat64(t, factor)
CallDbToFloat64 ==
    /\ pc = "conv call"
    /\ arg.kind = "dbToFloat64"
    /\ res' = dbToFloat64(arg.cell, arg.factor)
    /\ pc' = "conv done"
    /\ UNCHANGED <<db, metricMap, ch, up, errMap, todo, queries, ret, arg, threads, conn, cache>>

\* metricMapping.conversion(columnData[idx])
CallConversion ==
    /\ pc = "conv call"
    /\ arg.kind = "conversion"
    /\ res' = Conversion(metricMap[arg.ns].columnMappings[arg.col], arg.cell)
    /\ pc' = "conv done"
    /\ UNCHANGED <<db, metricMap, ch, up, errMap, todo, queries, ret, arg, threads, conn, cache>>

NextCoerce == CallDbToFloat64 \/ CallConversion

SpecCoerce == InitCoerce /\ [][NextCoerce]_vars

-----------------------------------------------------------------------------
(* queryShowLists, queryShowConfig and queryShowServers called on their own, *)
(* as TestQueryShowList and TestQueryShowConfig do, on every answer of at    *)
(* most MaxRows rows                                                         *)

\* the rows of SHOW LISTS: known and unknown names, numeric and other values
ListCells ==
    {[list |-> l, items |-> i] :
        l \in {"databases", "dns_queries", "mystery"},
        i \in {<<"1">>, <<"0">>, <<"-", "1">>, <<"a">>}}

\* the rows of SHOW CONFIG: allow-listed and other keys
ConfigCells ==
    {[key |-> k, values |-> v] :
        k \in {"max_client_conn", "max_user_connections", "job_name"},
        v \in {<<"1", "9">>, <<"0">>, <<"a">>}}

\* the rows of SHOW SERVERS
ServerCells ==
    {[user |-> u, database |-> <<"d">>, state |-> <<"a">>, addr |-> <<"h">>,
      port |-> p, closeNeeded |-> c] :
        u \in {<<"u">>, <<"v">>}, p \in {6432, 6433}, c \in {0, 1}}

\* the column counts the model gives each of the three result sets
ColumnCounts(kind) ==
    CASE kind = "LISTS"  -> {2, 3}
      [] kind = "CONFIG" -> {3, 4, 5}
      [] OTHER           -> {19, 20, 21}

CellsOf(kind) ==
    CASE kind = "LISTS"  -> ListCells
      [] kind = "CONFIG" -> ConfigCells
      [] OTHER           -> ServerCells

InitFixed ==
    /\ pc = "fixed call"
    /\ metricMap \in CompiledMaps
    /\ \E kind \in {"LISTS", "CONFIG", "SERVERS"} :
        /\ arg = [kind |-> kind, ns |-> "", col |-> "", cell |-> Nil, factor |-> Float(1, 1)]
        /\ \/ \E r \in {QueryFails, ColumnsFail} : db = (kind :> r)
           \/ \E ncols \in ColumnCounts(kind) : \E k \in 0..MaxRows :
              \E rows \in [1..k -> CellsOf(kind)] : \E end \in Ends :
                db = (kind :> KeyValueRows(ncols, rows, end))
    /\ ch = <<>>
    /\ up = 1
    /\ errMap = NoErrors
    /\ todo = {}
    /\ queries = <<>>
    /\ ret = NoRet
    /\ res = NoRes
    /\ threads = NoThreads
    /\ conn = NoConn
    /\ cache = NoCache

\* what a call leaves: the samples on the channel and the error returned
Called(out) ==
    /\ ch' = ch \o out.samples
    /\ ret' = [nonfatal |-> <<>>, fatal |-> out.err]
    /\ queries' = Append(queries, Query(arg.kind))
    /\ pc' = "fixed done"
    /\ UNCHANGED <<db, metricMap, up, errMap, todo, arg, res, threads, conn, cache>>

\* queryShowLists(ch, db, logger)
CallQueryShowLists ==
    /\ pc = "fixed call"
    /\ arg.kind = "LISTS"
    /\ Called(queryShowLists(db["LISTS"]))

\* queryShowConfig(ch, db, logger)
CallQueryShowConfig ==
    /\ pc = "fixed call"
    /\ arg.kind = "CONFIG"
    /\ Called(queryShowConfig(db["CONFIG"]))

\* queryShowServers(ch, db, logger)
CallQueryShowServers ==
    /\ pc = "fixed call"
    /\ arg.kind = "SERVERS"
    /\ \E order \in ServerOrders(db["SERVERS"]) :
          Called(queryShowServers(db["SERVERS"], order))

NextFixed == CallQueryShowLists \/ CallQueryShowConfig \/ CallQueryShowServers

SpecFixed == InitFixed /\ [][NextFixed]_vars

\* one call of either kind: a fixed collector or the generic collector
InitCall == InitFixed \/ InitNS

NextCall == NextFixed \/ NextNS

SpecCall == InitCall /\ [][NextCall]_vars

-----------------------------------------------------------------------------
(* The descriptor compiler with a current version, called as TestMakeDescMap *)
(* calls it, and the generic collector run on what it compiled              *)

\* semver.Version: major, minor, patch
Version(major, minor, patch) == <<major, minor, patch>>

\* a.LTE(b)
VersionLTE(a, b) ==
    \/ a[1] < b[1]
    \/ a[1] = b[1] /\ a[2] < b[2]
    \/ a[1] = b[1] /\ a[2] = b[2] /\ a[3] <= b[3]

\* the registry of TestMakeDescMap: usage, metric and factor of each column
testMetricMaps ==
    "database" :>
        ( "name"                :> ColumnMapping(LABEL, "N/A", Float(1, 1))
       @@ "host"                :> ColumnMapping(LABEL, "N/A", Float(1, 1))
       @@ "port"                :> ColumnMapping(LABEL, "N/A", Float(1, 1))
       @@ "pool_size"           :> ColumnMapping(GAUGE, "pool_size", Float(1, 1))
       @@ "reserve_pool"        :> ColumnMapping(GAUGE, "reserve_pool", Float(1, 1))
       @@ "current_connections" :> ColumnMapping(GAUGE, "current_connections",
                                                 Float(1, 1000000))
       @@ "total_query_count"   :> ColumnMapping(COUNTER, "queries_pooled_total",
                                                 Float(1, 1)) )

\* the registry of TestMakeDescMap: minVersion of each column
testMinVersions ==
    "database" :>
        ( "name"                :> Version(0, 0, 0)
       @@ "host"                :> Version(1, 21, 0)
       @@ "port"                :> Version(1, 9, 0)
       @@ "pool_size"           :> Version(1, 22, 0)
       @@ "reserve_pool"        :> Version(0, 0, 0)
       @@ "current_connections" :> Version(1, 7, 0)
       @@ "total_query_count"   :> Version(0, 0, 0) )

\* the versions a probed pgbouncer reports in the model
CurrentVersions ==
    { Version(0, 0, 0), Version(1, 7, 0), Version(1, 9, 0), Version(1, 20, 1),
      Version(1, 21, 0), Version(1, 22, 0), Version(2, 0, 0) }

\* the entries of a registry whose minVersion does not exceed currentVersion
InForce(maps, minVersions, currentVersion) ==
    [n \in DOMAIN maps |->
        [c \in {col \in DOMAIN maps[n] : VersionLTE(minVersions[n][col], currentVersion)} |->
            maps[n][c]]]

\* makeDescMap(metricMaps, namespace, logger, currentVersion): both loops
\* pass over the entries whose minVersion exceeds currentVersion
makeDescMapAt(maps, minVersions, prefix, order, currentVersion) ==
    makeDescMap(InForce(maps, minVersions, currentVersion), prefix, order)

\* the columns of "SHOW <namespace>;" for the registry of the test
testColumns ==
    <<"name", "host", "port", "pool_size", "reserve_pool", "current_connections",
      "total_query_count">>

\* the rows of that result set
testRows ==
    { <<Str(<<"d">>), Str(<<"h">>), Int64(6), ps, rp, Int64(5), tq>> :
        ps \in {Int64(2), Str(<<"a">>)}, rp \in {Int64(2), Nil},
        tq \in {Int64(2), Bytes(<<"3">>)} }

InitDesc ==
    /\ pc = "desc call"
    /\ metricMap = [n \in {} |-> 0]
    /\ \E v \in CurrentVersions :
        arg = [kind |-> "makeDescMap", ns |-> "database", col |-> "", cell |-> Nil,
               factor |-> Float(1, 1), version |-> v]
    /\ \E k \in 0..MaxRows : \E rows \in [1..k -> testRows] :
        db = ("database" :> Rows(testColumns, rows, "eof"))
    /\ ch = <<>>
    /\ up = 1
    /\ errMap = NoErrors
    /\ todo = {}
    /\ queries = <<>>
    /\ ret = NoRet
    /\ res = NoRes
    /\ threads = NoThreads
    /\ conn = NoConn
    /\ cache = NoCache

\* descMap := makeDescMap(metricMaps, "foo", logger, currentVersion)
CallMakeDescMap ==
    /\ pc = "desc call"
    /\ \E order \in LabelOrders(InForce(testMetricMaps, testMinVersions, arg.version)) :
        metricMap' = makeDescMapAt(testMetricMaps, testMinVersions, "foo", order,
                                   arg.version)
    /\ pc' = "desc done"
    /\ UNCHANGED <<db, ch, up, errMap, todo, queries, ret, arg, res, threads, conn, cache>>

\* queryNamespaceMapping(ch, db, namespace, descMap[namespace], logger)
CallQueryCompiled ==
    /\ pc = "desc done"
    /\ LET out == queryNamespaceMapping(db[arg.ns], metricMap[arg.ns])
       IN  /\ ch' = ch \o out.samples
           /\ ret' = [nonfatal |-> out.nonfatal, fatal |-> out.fatal]
    /\ queries' = Append(queries, Query(arg.ns))
    /\ pc' = "ns done"
    /\ UNCHANGED <<db, metricMap, up, errMap, todo, arg, res, threads, conn, cache>>

NextDesc == CallMakeDescMap \/ CallQueryCompiled

SpecDesc == InitDesc /\ [][NextDesc]_vars

-----------------------------------------------------------------------------
(* The generic collector of an exporter built with filterEmptyPools, called *)
(* on its own                                                               *)

\* the columns of SHOW POOLS whose sum tells an empty pool
activityColumns ==
    {"cl_active", "cl_waiting", "sv_active", "sv_idle", "sv_used", "sv_tested", "sv_login"}

RECURSIVE ActivitySum(_, _, _)
\* the sum of the activity columns of a row, from column i on; a column the
\* result set does not have adds nothing
ActivitySum(columnNames, columnData, i) ==
    IF i > Len(columnNames) THEN 0
    ELSE (IF columnNames[i] \in activityColumns THEN columnData[i].n ELSE 0)
         + ActivitySum(columnNames, columnData, i + 1)

\* the rows of the answer r that the policy lets through
UnfilteredRows(r, n, filterEmptyPools) ==
    IF filterEmptyPools /\ n = "pools"
    THEN LET Active(row) == ActivitySum(r.cols, row, 1) # 0
         IN  SelectSeq(r.rows, Active)
    ELSE r.rows

\* queryNamespaceMapping of an exporter built with filterEmptyPools: a row
\* that scans and whose activity sum is zero is passed over
queryNamespaceMappingFiltered(r, mapping, n, filterEmptyPools) ==
    queryNamespaceMapping([r EXCEPT !.rows = UnfilteredRows(r, n, filterEmptyPools)],
                          mapping)

\* the column layouts of the result sets the filtered collector reads
FilterLayouts(n) ==
    IF n = "pools"
    THEN { <<"database", "user", "cl_active", "sv_active", "maxwait">>,
           <<"database", "user", "maxwait">> }
    ELSE { <<"name", "pool_size">> }

\* the values of their columns
FilterCells(col) ==
    CASE col \in {"database", "name"} -> { Str(<<"d">>) }
      [] col = "user"                 -> { Str(<<"u">>) }
      [] OTHER                        -> { Int64(0), Int64(2) }

FilterRows(cols) ==
    {row \in [1..Len(cols) -> {Str(<<"d">>), Str(<<"u">>), Int64(0), Int64(2)}] :
        \A i \in 1..Len(cols) : row[i] \in FilterCells(cols[i])}

InitFilter ==
    /\ pc = "ns call"
    /\ metricMap \in CompiledMaps
    /\ \E n \in {"pools", "databases"} : \E f \in BOOLEAN :
        /\ arg = [kind |-> "ns", ns |-> n, col |-> "", cell |-> Nil, factor |-> Float(1, 1),
                  filterEmptyPools |-> f]
        /\ \/ \E r \in {QueryFails, ColumnsFail} : db = (n :> r)
           \/ \E cols \in FilterLayouts(n) : \E k \in 0..MaxRows :
              \E rows \in [1..k -> FilterRows(cols)] : \E end \in Ends :
                db = (n :> Rows(cols, rows, end))
    /\ ch = <<>>
    /\ up = 1
    /\ errMap = NoErrors
    /\ todo = {}
    /\ queries = <<>>
    /\ ret = NoRet
    /\ res = NoRes
    /\ threads = NoThreads
    /\ conn = NoConn
    /\ cache = NoCache

\* queryNamespaceMapping(ch, db, namespace, mapping, logger) of that exporter
CallQueryFiltered ==
    /\ pc = "ns call"
    /\ LET out == queryNamespaceMappingFiltered(db[arg.ns], metricMap[arg.ns], arg.ns,
                                                arg.filterEmptyPools)
       IN  /\ ch' = ch \o out.samples
           /\ ret' = [nonfatal |-> out.nonfatal, fatal |-> out.fatal]
    /\ queries' = Append(queries, Query(arg.ns))
    /\ pc' = "ns done"
    /\ UNCHANGED <<db, metricMap, up, errMap, todo, arg, res, threads, conn, cache>>

NextFilter == CallQueryFiltered

SpecFilter == InitFilter /\ [][NextFilter]_vars

-----------------------------------------------------------------------------
(* Exporter.Collect and Exporter.Describe called by several goroutines on    *)
(* one Exporter.  A goroutine t runs its cycle query by query; a query      *)
(* function holds the connection from db.Query to its return (defer         *)
(* rows.Close()), sending its samples meanwhile, one send at a time.        *)

\* what pgbouncer answers when every query works
OkAnswers ==
    "VERSION" :> Rows(<<"version">>, << <<"1", ".", "2">> >>, "eof")
 @@ "LISTS"   :> KeyValueRows(2, << [list |-> "databases", items |-> <<"1">>] >>, "eof")
 @@ "CONFIG"  :> KeyValueRows(4, << [key |-> "max_client_conn", values |-> <<"1", "9">>] >>,
                              "eof")
 @@ "SERVERS" :> KeyValueRows(20, << ServerRow(<<"u">>, 6432), ServerRow(<<"u">>, 6432) >>,
                              "eof")
 @@ [n \in DOMAIN metricMaps |-> Rows(CycleColumns(n), <<CycleRow(n)>>, "eof")]

\* the pgbouncers of the model: healthy, without an answer to SHOW VERSION,
\* without an answer to SHOW POOLS
Pgbouncers ==
    { OkAnswers,
      [OkAnswers EXCEPT !["VERSION"] = QueryFails],
      [OkAnswers EXCEPT !["pools"] = QueryFails] }

\* the locals of a goroutine that enters Exporter.Collect for the call op:
\* out are the samples its running query function has still to send, sent
\* the samples the metric channel has delivered, fwd the descriptor the
\* forwarding goroutine of Describe holds, descs the descriptors delivered
\* to the caller of Describe, cycles the cycles it has started
Entered(op, cycles) ==
    [op |-> op, pc |-> "version", todo |-> {}, up |-> 1, nerr |-> 0, out |-> <<>>,
     sent |-> <<>>, fwd |-> <<>>, descs |-> <<>>, cycles |-> cycles]

\* a sample with the cycle that produced it
Stamp(m, t, k) ==
    [desc |-> m.desc, vtype |-> m.vtype, value |-> m.value, labels |-> m.labels,
     cycle |-> <<t, k>>]

Stamped(samples, t, k) == [i \in 1..Len(samples) |-> Stamp(samples[i], t, k)]

\* goroutine t has issued query q, whose function sends samples and returns
\* err, and goes on at pc next
Asked(t, q, samples, next, up1, nerr1, todo1) ==
    /\ threads' = [threads EXCEPT
            ![t].out  = Stamped(samples, t, threads[t].cycles),
            ![t].pc   = next,
            ![t].up   = up1,
            ![t].nerr = nerr1,
            ![t].todo = todo1]
    /\ conn' = [holder |-> IF samples = <<>> THEN "" ELSE t,
                log    |-> Append(conn.log, <<t, threads[t].cycles, q>>)]

\* a stage of Collect before the generic result sets: db.Query on the free
\* connection, the rows, and the error branch up = 0
ThreadStage(t) ==
    /\ threads[t].pc \in {"version", "lists", "config", "servers"}
    /\ threads[t].out = <<>>
    /\ conn.holder = ""
    /\ \/ /\ threads[t].pc = "version"
          /\ LET out == queryVersion(db["VERSION"])
             IN  Asked(t, "VERSION", out.samples, "lists",
                       IF out.err # NoErr THEN 0 ELSE threads[t].up, 0, {})
       \/ /\ threads[t].pc = "lists"
          /\ LET out == queryShowLists(db["LISTS"])
             IN  Asked(t, "LISTS", out.samples, "config",
                       IF out.err # NoErr THEN 0 ELSE threads[t].up, 0, {})
       \/ /\ threads[t].pc = "config"
          /\ LET out == queryShowConfig(db["CONFIG"])
             IN  Asked(t, "CONFIG", out.samples, "servers",
                       IF out.err # NoErr THEN 0 ELSE threads[t].up, 0, {})
       \/ /\ threads[t].pc = "servers"
          /\ \E order \in ServerOrders(db["SERVERS"]) :
             LET out == queryShowServers(db["SERVERS"], order)
             IN  Asked(t, "SERVERS", out.samples, "namespaces",
                       IF out.err # NoErr THEN 0 ELSE threads[t].up, 0, DOMAIN metricMap)
    /\ UNCHANGED <<db, metricMap, pc, ch, up, errMap, todo, queries, ret, arg, res, cache>>

\* Variant of ThreadNamespace that leaves the range loop at the first fatal
\* error.
ThreadNamespaceBreak(t) ==
    /\ threads[t].pc = "namespaces"
    /\ threads[t].out = <<>>
    /\ conn.holder = ""
    /\ \E n \in threads[t].todo :
        LET out == queryNamespaceMapping(db[n], metricMap[n])
        IN  Asked(t, n, out.samples, "namespaces", threads[t].up,
                  threads[t].nerr + (IF out.fatal # NoErr THEN 1 ELSE 0),
                  IF out.fatal # NoErr THEN {} ELSE threads[t].todo \ {n})
    /\ UNCHANGED <<db, metricMap, pc, ch, up, errMap, todo, queries, ret, arg, res, cache>>

\* one iteration of the range loop of queryNamespaceMappings in goroutine t
ThreadNamespace(t) ==
    /\ threads[t].pc = "namespaces"
    /\ threads[t].out = <<>>
    /\ conn.holder = ""
    /\ \E n \in threads[t].todo :
        LET out == queryNamespaceMapping(db[n], metricMap[n])
        IN  Asked(t, n, out.samples, "namespaces", threads[t].up,
                  threads[t].nerr + (IF out.fatal # NoErr THEN 1 ELSE 0),
                  threads[t].todo \ {n})
    /\ UNCHANGED <<db, metricMap, pc, ch, up, errMap, todo, queries, ret, arg, res, cache>>

\* the end of Collect in goroutine t: the two tests on errMap and the
\* liveness sample
ThreadUp(t) ==
    /\ threads[t].pc = "namespaces"
    /\ threads[t].out = <<>>
    /\ threads[t].todo = {}
    /\ LET up1 == UpValue(threads[t].up, threads[t].nerr, Cardinality(DOMAIN metricMap))
       IN  threads' = [threads EXCEPT
                ![t].up  = up1,
                ![t].out = <<Stamp(Sample(scrapeSuccessDesc, "GaugeValue", Float(up1, 1),
                                          <<>>), t, threads[t].cycles)>>,
                ![t].pc  = "collected"]
    /\ UNCHANGED <<db, metricMap, pc, ch, up, errMap, todo, queries, ret, arg, res,
                   conn, cache>>

\* ch <- m in goroutine t, taken by the receiver of the metric channel: the
\* caller of Collect, or the forwarding goroutine of Describe when it holds
\* no descriptor; the query function returns after its last send
ThreadSend(t) ==
    /\ threads[t].out # <<>>
    /\ threads[t].op = "Describe" => threads[t].fwd = <<>>
    /\ threads' = [threads EXCEPT
            ![t].out  = Tail(threads[t].out),
            ![t].sent = Append(threads[t].sent, Head(threads[t].out)),
            ![t].fwd  = IF threads[t].op = "Describe"
                        THEN <<Head(threads[t].out).desc>> ELSE threads[t].fwd]
    /\ conn' = [conn EXCEPT !.holder = IF Len(threads[t].out) = 1 THEN "" ELSE conn.holder]
    /\ UNCHANGED <<db, metricMap, pc, ch, up, errMap, todo, queries, ret, arg, res, cache>>

\* ch <- m.Desc() in the forwarding goroutine of Describe, taken by the
\* caller of Describe
Forward(t) ==
    /\ threads[t].fwd # <<>>
    /\ threads' = [threads EXCEPT
            ![t].descs = Append(threads[t].descs, threads[t].fwd[1]),
            ![t].fwd   = <<>>]
    /\ UNCHANGED <<db, metricMap, pc, ch, up, errMap, todo, queries, ret, arg, res,
                   conn, cache>>

\* Collect returns to its caller
CollectReturn(t) ==
    /\ threads[t].op = "Collect"
    /\ threads[t].pc = "collected"
    /\ threads[t].out = <<>>
    /\ threads' = [threads EXCEPT ![t].pc = "returned"]
    /\ UNCHANGED <<db, metricMap, pc, ch, up, errMap, todo, queries, ret, arg, res,
                   conn, cache>>

\* Describe after e.Collect(metricCh): close(metricCh)
DescribeClose(t) ==
    /\ threads[t].op = "Describe"
    /\ threads[t].pc = "collected"
    /\ threads[t].out = <<>>
    /\ threads' = [threads EXCEPT ![t].pc = "closed"]
    /\ UNCHANGED <<db, metricMap, pc, ch, up, errMap, todo, queries, ret, arg, res,
                   conn, cache>>

\* the forwarding goroutine leaves its range loop on the closed channel:
\* close(doneCh)
ForwarderDone(t) ==
    /\ threads[t].pc = "closed"
    /\ threads[t].fwd = <<>>
    /\ threads' = [threads EXCEPT ![t].pc = "drained"]
    /\ UNCHANGED <<db, metricMap, pc, ch, up, errMap, todo, queries, ret, arg, res,
                   conn, cache>>

\* Variant of DescribeReturn that does not wait for doneCh.
DescribeReturnNoWait(t) ==
    /\ threads[t].pc \in {"closed", "drained"}
    /\ threads' = [threads EXCEPT ![t].pc = "returned"]
    /\ UNCHANGED <<db, metricMap, pc, ch, up, errMap, todo, queries, ret, arg, res,
                   conn, cache>>

\* <-doneCh, and Describe returns
DescribeReturn(t) ==
    /\ threads[t].pc = "drained"
    /\ threads' = [threads EXCEPT ![t].pc = "returned"]
    /\ UNCHANGED <<db, metricMap, pc, ch, up, errMap, todo, queries, ret, arg, res,
                   conn, cache>>

\* the goroutines of the registry that call into the Exporter: c1 calls
\* Collect or Describe while c2 runs a scrape
Callers == {"c1", "c2"}

\* the generic result sets of the exporter the goroutines share
SharedNamespaces == {"pools"}

\* the descriptor maps NewExporter can compile for them
SharedMaps ==
    LET maps == [n \in SharedNamespaces |-> metricMaps[n]]
    IN  {makeDescMap(maps, namespace, o) : o \in LabelOrders(maps)}

InitCallers ==
    /\ pc = "concurrent"
    /\ metricMap \in SharedMaps
    /\ db \in Pgbouncers
    /\ ch = <<>>
    /\ up = 1
    /\ errMap = NoErrors
    /\ todo = {}
    /\ queries = <<>>
    /\ ret = NoRet
    /\ arg = NoArg
    /\ res = NoRes
    /\ \E op \in {"Collect", "Describe"} :
          threads = ("c1" :> Entered(op, 1)) @@ ("c2" :> Entered("Collect", 1))
    /\ conn = NoConn
    /\ cache = NoCache

\* a step of goroutine t
CallerStep(t) ==
    \/ ThreadStage(t)
    \/ ThreadNamespace(t)
    \/ ThreadUp(t)
    \/ ThreadSend(t)
    \/ Forward(t)
    \/ CollectReturn(t)
    \/ DescribeClose(t)
    \/ ForwarderDone(t)
    \/ DescribeReturn(t)

NextCallers == \E t \in Callers : CallerStep(t)

SpecCallers == InitCallers /\ [][NextCallers]_vars

\* Describe called by one goroutine, on an Exporter with every generic
\* result set of the model
InitDescribe ==
    /\ pc = "concurrent"
    /\ metricMap \in CompiledMaps
    /\ db \in Pgbouncers
    /\ ch = <<>>
    /\ up = 1
    /\ errMap = NoErrors
    /\ todo = {}
    /\ queries = <<>>
    /\ ret = NoRet
    /\ arg = NoArg
    /\ res = NoRes
    /\ threads = ("c1" :> Entered("Describe", 1))
    /\ conn = NoConn
    /\ cache = NoCache

\* a step of Describe in goroutine t, its forwarding goroutine included
DescribeStep(t) ==
    \/ ThreadStage(t)
    \/ ThreadNamespace(t)
    \/ ThreadUp(t)
    \/ ThreadSend(t)
    \/ Forward(t)
    \/ DescribeClose(t)
    \/ ForwarderDone(t)
    \/ DescribeReturn(t)

NextDescribe == DescribeStep("c1")

SpecDescribe == InitDescribe /\ [][NextDescribe]_vars

\* the scheduler lets the goroutines of Describe run and its caller keeps
\* receiving
FairSpecDescribe == SpecDescribe /\ WF_vars(NextDescribe)

\* Collect called twice by one goroutine, one scrape after the other, on the
\* same Exporter and a pgbouncer that answers the same both times
InitTwice ==
    /\ pc = "concurrent"
    /\ metricMap \in CompiledMaps
    /\ db \in Pgbouncers
    /\ ch = <<>>
    /\ up = 1
    /\ errMap = NoErrors
    /\ todo = {}
    /\ queries = <<>>
    /\ ret = NoRet
    /\ arg = NoArg
    /\ res = NoRes
    /\ threads = ("c1" :> Entered("Collect", 1))
    /\ conn = NoConn
    /\ cache = NoCache

\* the scrapes the goroutine makes
MaxCycles == 2

\* the next scrape enters Collect: var up = 1.0, and a new errMap
CollectAgain(t) ==
    /\ threads[t].pc = "returned"
    /\ threads[t].cycles < MaxCycles
    /\ threads' = [threads EXCEPT
            ![t].pc     = "version",
            ![t].up     = 1,
            ![t].nerr   = 0,
            ![t].cycles = threads[t].cycles + 1]
    /\ UNCHANGED <<db, metricMap, pc, ch, up, errMap, todo, queries, ret, arg, res,
                   conn, cache>>

NextTwice ==
    \/ ThreadStage("c1")
    \/ ThreadNamespace("c1")
    \/ ThreadUp("c1")
    \/ ThreadSend("c1")
    \/ CollectReturn("c1")
    \/ CollectAgain("c1")

SpecTwice == InitTwice /\ [][NextTwice]_vars

-----------------------------------------------------------------------------
(* The CachedExporter: NewCachedExporter in goroutine "main", its background *)
(* updater, and a goroutine "scraper" that calls CachedExporter.Collect     *)

\* ticks of the updater's ticker, and scrapes, that the model follows
MaxTicks == 2
MaxScrapes == 2

\* a goroutine outside Exporter.Collect, at pc, having started cycles cycles
\* resp. scrapes
Outside(op, at, cycles) ==
    [op |-> op, pc |-> at, todo |-> {}, up |-> 1, nerr |-> 0, out |-> <<>>,
     sent |-> <<>>, fwd |-> <<>>, descs |-> <<>>, cycles |-> cycles]

\* the sample CachedExporter.Collect adds: time.Since(lastUpdated)
cacheAgeSample(lastUpdated) ==
    [desc |-> FixedDesc("", "cache_age_seconds", <<>>), vtype |-> "GaugeValue",
     value |-> [since |-> lastUpdated], labels |-> <<>>, cycle |-> <<"cache", 0>>]

InitCached ==
    /\ pc = "concurrent"
    /\ metricMap \in SharedMaps
    /\ db \in Pgbouncers
    /\ ch = <<>>
    /\ up = 1
    /\ errMap = NoErrors
    /\ todo = {}
    /\ queries = <<>>
    /\ ret = NoRet
    /\ arg = NoArg
    /\ res = NoRes
    /\ threads = ("main" :> Outside("NewCachedExporter", "new", 0))
              @@ ("updater" :> Outside("updateMetricsLoop", "off", 0))
              @@ ("scraper" :> Outside("Collect", "idle", 0))
    /\ conn = NoConn
    /\ cache = NoCache

\* go cached.updateMetricsLoop(), and main goes on to cached.updateCache()
GoUpdateMetricsLoop ==
    /\ threads["main"].pc = "new"
    /\ threads' = [threads EXCEPT !["main"].pc = "updateCache",
                                  !["updater"].pc = "ticker"]
    /\ UNCHANGED <<db, metricMap, pc, ch, up, errMap, todo, queries, ret, arg, res,
                   conn, cache>>

\* case <-ticker.C: ce.updateCache()
Tick ==
    /\ threads["updater"].pc = "ticker"
    /\ threads["updater"].cycles < MaxTicks
    /\ threads' = [threads EXCEPT !["updater"].pc = "updateCache"]
    /\ UNCHANGED <<db, metricMap, pc, ch, up, errMap, todo, queries, ret, arg, res,
                   conn, cache>>

\* where updateCache returns to in goroutine t
AfterUpdateCache(t) == IF t = "main" THEN "constructed" ELSE "ticker"

\* the head of updateCache under cache.mu.Lock(): return if an update is
\* running, else set updating and go on to collect
UpdateCacheEnter(t) ==
    /\ threads[t].pc = "updateCache"
    /\ cache.readers = 0
    /\ IF cache.updating
       THEN /\ threads' = [threads EXCEPT ![t].pc = AfterUpdateCache(t)]
            /\ UNCHANGED cache
       ELSE /\ cache' = [cache EXCEPT !.updating = TRUE]
            /\ threads' = [threads EXCEPT
                    ![t] = Entered(threads[t].op, threads[t].cycles + 1)]
    /\ UNCHANGED <<db, metricMap, pc, ch, up, errMap, todo, queries, ret, arg, res, conn>>

\* Variant of UpdateCacheCommit that publishes what has been collected as
\* soon as the connection-state stage is over, and again at the end.
UpdateCacheCommitEarly(t) ==
    /\ threads[t].op # "Collect"
    /\ threads[t].pc \in {"namespaces", "collected"}
    /\ threads[t].out = <<>>
    /\ cache.readers = 0
    /\ cache.metrics # threads[t].sent
    /\ cache' = [cache EXCEPT !.metrics = threads[t].sent,
                              !.lastUpdated = cache.lastUpdated + 1,
                              !.updating = threads[t].pc # "collected"]
    /\ threads' = [threads EXCEPT
            ![t].pc = IF threads[t].pc = "collected" THEN AfterUpdateCache(t)
                      ELSE threads[t].pc]
    /\ UNCHANGED <<db, metricMap, pc, ch, up, errMap, todo, queries, ret, arg, res, conn>>

\* the tail of updateCache, after ce.Exporter.Collect(ch), close(ch) and
\* <-done, under cache.mu.Lock(): the collected samples become the cache
UpdateCacheCommit(t) ==
    /\ threads[t].op # "Collect"
    /\ threads[t].pc = "collected"
    /\ threads[t].out = <<>>
    /\ cache.readers = 0
    /\ cache' = [cache EXCEPT !.metrics = threads[t].sent,
                              !.lastUpdated = cache.lastUpdated + 1,
                              !.updating = FALSE]
    /\ threads' = [threads EXCEPT ![t].pc = AfterUpdateCache(t)]
    /\ UNCHANGED <<db, metricMap, pc, ch, up, errMap, todo, queries, ret, arg, res, conn>>

\* CachedExporter.Collect is called on the exporter NewCachedExporter has
\* returned: cache.mu.RLock(), and the range loop takes cache.metrics
ServeRLock ==
    /\ threads["scraper"].pc = "idle"
    /\ threads["main"].pc = "constructed"
    /\ threads["scraper"].cycles < MaxScrapes
    /\ cache' = [cache EXCEPT !.readers = cache.readers + 1]
    /\ threads' = [threads EXCEPT !["scraper"].pc = "serving",
                                  !["scraper"].out = cache.metrics,
                                  !["scraper"].sent = <<>>,
                                  !["scraper"].cycles = threads["scraper"].cycles + 1]
    /\ UNCHANGED <<db, metricMap, pc, ch, up, errMap, todo, queries, ret, arg, res, conn>>

\* ch <- m in the range loop of CachedExporter.Collect
ServeSend ==
    /\ threads["scraper"].pc = "serving"
    /\ threads["scraper"].out # <<>>
    /\ threads' = [threads EXCEPT
            !["scraper"].out  = Tail(threads["scraper"].out),
            !["scraper"].sent = Append(threads["scraper"].sent, Head(threads["scraper"].out))]
    /\ UNCHANGED <<db, metricMap, pc, ch, up, errMap, todo, queries, ret, arg, res,
                   conn, cache>>

\* the cache-age sample, and the deferred cache.mu.RUnlock()
ServeAge ==
    /\ threads["scraper"].pc = "serving"
    /\ threads["scraper"].out = <<>>
    /\ threads' = [threads EXCEPT
            !["scraper"].sent = Append(threads["scraper"].sent,
                                       cacheAgeSample(cache.lastUpdated)),
            !["scraper"].pc   = "idle"]
    /\ cache' = [cache EXCEPT !.readers = cache.readers - 1]
    /\ UNCHANGED <<db, metricMap, pc, ch, up, errMap, todo, queries, ret, arg, res, conn>>

\* the goroutines that run updateCache
Updaters == {"main", "updater"}

NextCached ==
    \/ GoUpdateMetricsLoop
    \/ Tick
    \/ ServeRLock
    \/ ServeSend
    \/ ServeAge
    \/ \E t \in Updaters :
        \/ UpdateCacheEnter(t)
        \/ ThreadStage(t)
        \/ ThreadNamespace(t)
        \/ ThreadUp(t)
        \/ ThreadSend(t)
        \/ UpdateCacheCommit(t)

SpecCached == InitCached /\ [][NextCached]_vars

-----------------------------------------------------------------------------
(* Config.ValidateLabels on the pgbouncer instances of a configuration      *)

\* the most instances a configuration of the model has
MaxInstances == 2

\* the bytes of the characters the label texts of the model are made of
ByteOf(c) ==
    CASE c = "," -> 44
      [] c = "1" -> 49
      [] c = "=" -> 61
      [] c = "a" -> 97
      [] OTHER   -> 98

RECURSIVE StringLess(_, _)
\* s < t on Go strings: bytewise, a proper prefix first
StringLess(s, t) ==
    IF t = <<>> THEN FALSE
    ELSE IF s = <<>> THEN TRUE
    ELSE IF ByteOf(s[1]) # ByteOf(t[1]) THEN ByteOf(s[1]) < ByteOf(t[1])
    ELSE StringLess(Tail(s), Tail(t))

RECURSIVE InsertString(_, _)
InsertString(x, sorted) ==
    IF sorted = <<>> THEN <<x>>
    ELSE IF StringLess(sorted[1], x) THEN <<sorted[1]>> \o InsertString(x, Tail(sorted))
    ELSE <<x>> \o sorted

RECURSIVE SortStrings(_)
\* slices.Sort(slabels)
SortStrings(xs) ==
    IF xs = <<>> THEN <<>> ELSE InsertString(xs[1], SortStrings(Tail(xs)))

RECURSIVE Join(_, _)
\* strings.Join(elems, sep)
Join(elems, sep) ==
    IF elems = <<>> THEN <<>>
    ELSE IF Len(elems) = 1 THEN elems[1]
    ELSE elems[1] \o sep \o Join(Tail(elems), sep)

\* NewDefaultConfig, the fields ValidateLabels reads
NewDefaultConfig == [ExtraLabels |-> <<>>, PgBouncers |-> <<>>]

\* maps.Copy(mergedLabels, p.ExtraLabels); maps.Copy(mergedLabels, extraLabels)
MergedExtraLabels(p, extraLabels) ==
    [k \in DOMAIN p.ExtraLabels \cup DOMAIN extraLabels |->
        IF k \in DOMAIN extraLabels THEN extraLabels[k] ELSE p.ExtraLabels[k]]

RECURSIVE LabelPairs(_, _)
\* the strings "k=v" the range loop over the merged labels appends, the keys
\* in todo still to visit
LabelPairs(merged, todo1) ==
    IF todo1 = {} THEN <<>>
    ELSE LET k == CHOOSE x \in todo1 : TRUE
         IN  <<k \o <<"=">> \o merged[k]>> \o LabelPairs(merged, todo1 \ {k})

\* hash := strings.Join(slabels, ",") after slices.Sort(slabels)
LabelHash(merged) == Join(SortStrings(LabelPairs(merged, DOMAIN merged)), <<",">>)

RECURSIVE UniqueLoop(_, _, _)
\* the first loop of ValidateLabels from instance i on, labels the hashes
\* seen: TRUE when it returns the error about a repeated combination
UniqueLoop(p, i, labels) ==
    IF i > Len(p.PgBouncers) THEN FALSE
    ELSE LET hash == LabelHash(MergedExtraLabels(p, p.PgBouncers[i].ExtraLabels))
         IN  IF hash \in labels THEN TRUE
             ELSE UniqueLoop(p, i + 1, labels \cup {hash})

\* keys[k] after the first loop has visited every instance
KeyAmount(p, k) ==
    Cardinality({i \in 1..Len(p.PgBouncers) :
                    k \in DOMAIN MergedExtraLabels(p, p.PgBouncers[i].ExtraLabels)})

\* Config.ValidateLabels
ValidateLabels(p) ==
    IF UniqueLoop(p, 1, {}) THEN "Every pgbouncer instance must have unique label values"
    ELSE IF \E i \in 1..Len(p.PgBouncers) :
               \E k \in DOMAIN MergedExtraLabels(p, p.PgBouncers[i].ExtraLabels) :
                  KeyAmount(p, k) # Len(p.PgBouncers)
    THEN "Every pgbouncer instance must define the same extra labels"
    ELSE NoErr

\* the label names and label values of the model's configurations
LabelKeys == {<<"a">>, <<"b">>}

LabelTexts == {<<>>, <<"1">>, <<",", "b", "=">>}

\* the values of a map[string]string over them
LabelMaps == UNION {[K -> LabelTexts] : K \in SUBSET LabelKeys}

\* a configuration as yaml.Unmarshal or NewDefaultConfig leaves it, before
\* any instance is added
InitConfig ==
    /\ pc = "config"
    /\ \E g \in LabelMaps :
          arg = [kind |-> "config", ExtraLabels |-> g, PgBouncers |-> <<>>]
    /\ metricMap \in EmptyCompiledMaps
    /\ db = NoAnswers
    /\ ch = <<>>
    /\ up = 1
    /\ errMap = NoErrors
    /\ todo = {}
    /\ queries = <<>>
    /\ ret = NoRet
    /\ res = NoRes
    /\ threads = NoThreads
    /\ conn = NoConn
    /\ cache = NoCache

\* p.AddPgbouncerConfig(dsn, pidFilePath, extraLabels)
AddPgbouncerConfig ==
    /\ pc = "config"
    /\ Len(arg.PgBouncers) < MaxInstances
    /\ \E extraLabels \in LabelMaps :
          arg' = [arg EXCEPT !.PgBouncers = Append(@, [ExtraLabels |-> extraLabels])]
    /\ UNCHANGED <<db, metricMap, pc, ch, up, errMap, todo, queries, ret, res, threads,
                   conn, cache>>

\* err := config.ValidateLabels()
CallValidateLabels ==
    /\ pc = "config"
    /\ ret' = [nonfatal |-> <<>>, fatal |-> ValidateLabels(arg)]
    /\ pc' = "validated"
    /\ UNCHANGED <<db, metricMap, ch, up, errMap, todo, queries, arg, res, threads,
                   conn, cache>>

NextConfig == AddPgbouncerConfig \/ CallValidateLabels

SpecConfig == InitConfig /\ [][NextConfig]_vars

-----------------------------------------------------------------------------
(* Credentials.UpdateDSN on a parsed DSN.  The raw query of a URL is a      *)
(* sequence of pairs as written: key=value with the value plain or          *)
(* percent-escaped, a bare key, or a pair url.ParseQuery rejects (a bad      *)
(* escape, a semicolon)                                                      *)

\* the most pairs the raw query of a DSN of the model has
MaxPairs == 2

\* url.User(username)
User(username) == [nil |-> FALSE, username |-> username, password |-> "", passwordSet |-> FALSE]

\* url.UserPassword(username, password)
UserPassword(username, password) ==
    [nil |-> FALSE, username |-> username, password |-> password, passwordSet |-> TRUE]

\* a URL without user information: dsn.User == nil
NoUser == [nil |-> TRUE, username |-> "", password |-> "", passwordSet |-> FALSE]

\* the url tags of the fields of SSLCredentials
sslTags ==
    [Mode |-> "sslmode", Cert |-> "sslcert", Key |-> "sslkey", Password |-> "sslpassword",
     Compression |-> "sslcompression", Negotiation |-> "sslnegotiation",
     CertMode |-> "sslcertmode", RootCert |-> "sslrootcert"]

\* query.Values(c.SSL): every field is tagged omitempty
Values(ssl) ==
    [k \in {sslTags[f] : f \in {g \in DOMAIN ssl : ssl[g] # ""}} |->
        <<ssl[CHOOSE f \in DOMAIN ssl : sslTags[f] = k]>>]

\* a pair of a raw query
Pair(key, value, written) == [key |-> key, value |-> value, written |-> written]

\* dsn.Query(): url.ParseQuery skips the pairs it rejects and the error is
\* dropped; the values of a key stay in the order written
ParseQuery(rawQuery) ==
    LET good == SelectSeq(rawQuery, LAMBDA p : p.written # "bad")
    IN  [k \in {good[i].key : i \in 1..Len(good)} |->
            LET mine == SelectSeq(good, LAMBDA p : p.key = k)
            IN  [i \in 1..Len(mine) |-> mine[i].value]]

\* Variant of Set that is url.Values.Add: the value is appended.
Add(q, k, v) ==
    [x \in DOMAIN q \cup {k} |->
        IF x # k THEN q[x] ELSE IF k \in DOMAIN q THEN Append(q[k], v) ELSE <<v>>]

\* q.Set(k, v)
Set(q, k, v) == [x \in DOMAIN q \cup {k} |-> IF x = k THEN <<v>> ELSE q[x]]

RECURSIVE SetEach(_, _, _)
\* for _, vv := range v { q.Set(k, vv) }
SetEach(q, k, v) ==
    IF v = <<>> THEN q ELSE SetEach(Set(q, k, v[1]), k, Tail(v))

RECURSIVE SetAll(_, _, _)
\* for k, v := range sslValues, the keys in todo1 still to visit
SetAll(q, sslValues, todo1) ==
    IF todo1 = {} THEN q
    ELSE LET k == CHOOSE x \in todo1 : TRUE
         IN  SetAll(SetEach(q, k, sslValues[k]), sslValues, todo1 \ {k})

\* the keys of the model's queries in the order of sort.Strings
SortedKeys ==
    <<"application_name", "sslcert", "sslcertmode", "sslcompression", "sslkey", "sslmode",
      "sslnegotiation", "sslpassword", "sslrootcert">>

\* the texts of the model that url.QueryEscape rewrites
EscapedTexts == {"testdata/client.crt"}

RECURSIVE Encode(_, _)
\* q.Encode() from key i of the sorted keys on: key=value pairs, sorted by
\* key, every value escaped
Encode(q, i) ==
    IF i > Len(SortedKeys) THEN <<>>
    ELSE LET k == SortedKeys[i]
         IN  (IF k \in DOMAIN q
              THEN [j \in 1..Len(q[k]) |->
                      Pair(k, q[k][j],
                           IF q[k][j] \in EscapedTexts THEN "escaped" ELSE "plain")]
              ELSE <<>>) \o Encode(q, i + 1)

\* Credentials.UpdateDSN
UpdateDSN(c, dsn) ==
    [dsn EXCEPT
        !.User     = IF c.Password = "" THEN User(c.Username)
                     ELSE UserPassword(c.Username, c.Password),
        !.RawQuery = LET sslValues == Values(c.SSL)
                     IN  Encode(SetAll(ParseQuery(dsn.RawQuery), sslValues,
                                       DOMAIN sslValues), 1)]

\* SSLCredentials with nothing set
NoSSL ==
    [Mode |-> "", Cert |-> "", Key |-> "", Password |-> "", Compression |-> "",
     Negotiation |-> "", CertMode |-> "", RootCert |-> ""]

\* the SSL settings of the model's credentials: none, a mode, a certificate,
\* both, and the full set of TestUpdateDSN
SSLChoices ==
    { NoSSL,
      [NoSSL EXCEPT !.Mode = "verify-full"],
      [NoSSL EXCEPT !.Cert = "testdata/client.crt"],
      [NoSSL EXCEPT !.Mode = "verify-full", !.Cert = "testdata/client.crt"],
      [Mode |-> "verify-full", Cert |-> "testdata/client.crt", Key |-> "testdata/client.crt",
       Password |-> "password", Compression |-> "1", Negotiation |-> "postgres",
       CertMode |-> "allow", RootCert |-> "testdata/client.crt"] }

\* the pairs of the model's raw queries
RawPairs ==
    {Pair(k, v, "plain") : k \in {"sslmode", "application_name"},
                            v \in {"disable", "testdata/client.crt"}}
    \cup {Pair(k, "testdata/client.crt", "escaped") : k \in {"sslmode", "application_name"}}
    \cup {Pair(k, "", w) : k \in {"sslmode", "application_name"}, w \in {"bare", "bad"}}

\* the user information of the model's DSNs
DSNUsers ==
    {NoUser, User("postgres"), UserPassword("postgres", ""), UserPassword("postgres", "secret")}

\* a credential and a DSN as url.Parse returns it
InitDSN ==
    /\ pc = "dsn"
    /\ \E username \in {"", "username"} : \E password \in {"", "password"} :
       \E ssl \in SSLChoices : \E user \in DSNUsers :
       \E n \in 0..MaxPairs : \E rawQuery \in [1..n -> RawPairs] :
          LET dsn == [User |-> user, Host |-> "localhost:6543", Path |-> "/pgbouncer",
                      RawQuery |-> rawQuery]
          IN  arg = [kind |-> "dsn",
                     c |-> [Username |-> username, Password |-> password, SSL |-> ssl],
                     start |-> dsn, dsn |-> dsn]
    /\ metricMap \in EmptyCompiledMaps
    /\ db = NoAnswers
    /\ ch = <<>>
    /\ up = 1
    /\ errMap = NoErrors
    /\ todo = {}
    /\ queries = <<>>
    /\ ret = NoRet
    /\ res = NoRes
    /\ threads = NoThreads
    /\ conn = NoConn
    /\ cache = NoCache

\* cred.UpdateDSN(dsn)
CallUpdateDSN ==
    /\ pc = "dsn"
    /\ arg' = [arg EXCEPT !.dsn = UpdateDSN(arg.c, arg.dsn)]
    /\ pc' = "dsn done"
    /\ UNCHANGED <<db, metricMap, ch, up, errMap, todo, queries, ret, res, threads,
                   conn, cache>>

NextDSN == CallUpdateDSN

SpecDSN == InitDSN /\ [][NextDSN]_vars

-----------------------------------------------------------------------------
(* Properties of the scrape cycle (Spec) *)

\* the answer to a query of the cycle makes its stage return an error
VersionFailed == queryVersion(db["VERSION"]).err # NoErr
ListsFailed   == queryShowLists(db["LISTS"]).err # NoErr
ConfigFailed  == queryShowConfig(db["CONFIG"]).err # NoErr
ServersFailed == queryShowServers(db["SERVERS"], <<>>).err # NoErr

\* the answer r makes queryNamespaceMapping return a fatal error: the query
\* fails, the columns cannot be read, or the scan of a row fails
Fatal(r) == r.qerr \/ r.cerr \/ r.end = "scanerr"

FailedNamespaces == {n \in DOMAIN metricMap : Fatal(db[n])}

IsUp(m) == m.desc = scrapeSuccessDesc

\* the stage a sample comes from, by its descriptor: 1 version, 2 list,
\* 3 config, 4 connection state, 5 generic result sets, 6 liveness
StageOf(m) ==
    CASE m.desc = bouncerVersionDesc -> 1
      [] m.desc = serverCountDescription -> 4
      [] m.desc = scrapeSuccessDesc -> 6
      [] m.desc.name[2] = "config" -> 3
      [] m.desc.name[2] \in DOMAIN metricMaps -> 5
      [] OTHER -> 2

StageQueries == <<Query("VERSION"), Query("LISTS"), Query("CONFIG"), Query("SERVERS")>>

\* C1: at the end of a scrape cycle the liveness sample is 1.0 if and only
\* if the version, list, config and connection-state stages returned no
\* error and no generic result set returned a fatal error; otherwise it is
\* 0.0 (the model always configures at least one generic result set).
C1_LivenessIffAllStagesOk ==
    pc = "done" =>
        /\ IsUp(ch[Len(ch)])
        /\ ch[Len(ch)].value =
             Float(IF /\ ~VersionFailed /\ ~ListsFailed /\ ~ConfigFailed /\ ~ServersFailed
                      /\ FailedNamespaces = {}
                   THEN 1 ELSE 0, 1)

\* a cycle in which only the version query failed ended with liveness 0.0
C1_Witness ==
    /\ pc = "done"
    /\ VersionFailed /\ ~ListsFailed /\ ~ConfigFailed /\ ~ServersFailed
    /\ FailedNamespaces = {}
    /\ ch[Len(ch)].value = Float(0, 1)

\* C2: the queries of a cycle are issued in the order version, list, config,
\* connection state, then the generic result sets, each once; the samples on
\* the channel are ordered by stage; and whatever failed, a finished cycle
\* has attempted every stage and every generic result set.
C2_StageOrder ==
    /\ \A i \in 1..Len(queries) :
          IF i <= 4 THEN queries[i] = StageQueries[i]
          ELSE /\ queries[i][2] \in DOMAIN metricMap
               /\ \A j \in 1..Len(queries) : queries[j] = queries[i] => j = i
    /\ \A i, j \in 1..Len(ch) : i < j => StageOf(ch[i]) <= StageOf(ch[j])
    /\ pc = "done" =>
          /\ Len(queries) = 4 + Cardinality(DOMAIN metricMap)
          /\ \A n \in DOMAIN metricMap : \E i \in 5..Len(queries) : queries[i] = Query(n)

\* a finished cycle whose first four stages all failed still queried the
\* generic result sets and emitted their samples
C2_Witness ==
    /\ pc = "done"
    /\ VersionFailed /\ ListsFailed /\ ConfigFailed /\ ServersFailed
    /\ Len(queries) = 4 + Cardinality(DOMAIN metricMap)
    /\ \E i \in 1..Len(ch) : StageOf(ch[i]) = 5

\* C3: while a cycle runs no liveness sample is on the channel; when it has
\* finished there is exactly one, and it is the last sample.
C3_OneLivenessSampleLast ==
    LET ups == {i \in 1..Len(ch) : IsUp(ch[i])}
    IN  IF pc = "done" THEN ups = {Len(ch)} /\ Len(ch) >= 1
        ELSE ups = {}

\* a finished cycle in which every stage and every generic result set failed:
\* the liveness sample is there, after the samples sent before a failure
C3_Witness ==
    /\ pc = "done"
    /\ VersionFailed /\ ListsFailed /\ ConfigFailed /\ ServersFailed
    /\ FailedNamespaces = DOMAIN metricMap
    /\ Len(ch) > 1
    /\ IsUp(ch[Len(ch)])

\* C4: when the loop of queryNamespaceMappings is over, every configured
\* result set has been queried, and the keys of the error map are exactly
\* the result sets whose answer made queryNamespaceMapping fail fatally;
\* inside the loop this holds of the result sets visited so far.
C4_ErrorMapExact ==
    pc \in {"namespaces", "done"} =>
        /\ DOMAIN errMap =
              {n \in (DOMAIN metricMap) \ todo : n \in DOMAIN db /\ Fatal(db[n])}
        /\ \A n \in (DOMAIN metricMap) \ todo :
              \E i \in 1..Len(queries) : queries[i] = Query(n)
        /\ pc = "done" => todo = {}

\* the loop is over, one result set failed fatally and the others were still
\* queried and succeeded
C4_Witness ==
    /\ pc = "namespaces"
    /\ todo = {}
    /\ Cardinality(DOMAIN errMap) = 1
    /\ \A n \in DOMAIN metricMap : n \in DOMAIN db
    /\ \E n \in DOMAIN metricMap : ~Fatal(db[n]) /\ n \notin DOMAIN errMap

-----------------------------------------------------------------------------
(* Properties of the value coercion (SpecCoerce) *)

IsText(c) == c.t \in {"string", "bytes"}

\* text that is no decimal number whatever the parser: it has a letter, or
\* no digit at all
PlainlyMalformed(s) ==
    \/ \E i \in 1..Len(s) : s[i] = "a"
    \/ \A i \in 1..Len(s) : ~IsDigit(s[i])

\* the factor the call under test has to apply: the argument of a direct
\* call, the registry entry of the column for a compiled conversion
ExpectedFactor ==
    IF arg.kind = "conversion" THEN metricMaps[arg.ns][arg.col].factor
    ELSE arg.factor

\* C6: for every scale factor, dbToFloat64 returns (NaN, true) on a nil,
\* (NaN, false) on text or bytes that do not parse as a number, and
\* (NaN, false) on a value of an unsupported type; ok = false on nothing else.
C6_NullIsNotMalformed ==
    pc = "conv done" =>
        /\ arg.cell.t = "nil" => res = [val |-> NaN, ok |-> TRUE]
        /\ IsText(arg.cell) /\ ParseFloat(arg.cell.s).err =>
              res = [val |-> NaN, ok |-> FALSE]
        /\ IsText(arg.cell) /\ PlainlyMalformed(arg.cell.s) =>
              res = [val |-> NaN, ok |-> FALSE]
        /\ arg.cell.t = "bool" => res = [val |-> NaN, ok |-> FALSE]
        /\ ~res.ok =>
              \/ arg.cell.t = "bool"
              \/ IsText(arg.cell) /\ ParseFloat(arg.cell.s).err

\* a nil went through the compiled conversion of a column with factor 1e-6
\* and came back as (NaN, true)
C6_Witness ==
    /\ pc = "conv done"
    /\ arg.cell = Nil
    /\ arg.kind = "conversion"
    /\ arg.col = "total_query_time"
    /\ res.ok
    /\ res.val.nan

-----------------------------------------------------------------------------
(* Properties of queryNamespaceMapping (SpecNS) *)

\* the result set the call under test reads
NSAnswer == db[arg.ns]
NSCols   == NSAnswer.cols
NSRows   == NSAnswer.rows

\* the cells of the result set, numbered row by row
Flat      == [j \in 1..(Len(NSRows) * Len(NSCols)) |-> j]
RowOf(j)  == ((j - 1) \div Len(NSCols)) + 1
ColOf(j)  == ((j - 1) % Len(NSCols)) + 1
CellAt(j) == NSRows[RowOf(j)][ColOf(j)]
NameAt(j) == NSCols[ColOf(j)]

\* the registry declares column c as a counter or a gauge
RecognisedColumn(c) ==
    /\ c \in DOMAIN metricMaps[arg.ns]
    /\ metricMaps[arg.ns][c].usage \in {COUNTER, GAUGE}

\* cell j is in such a column
Recognised(j) == RecognisedColumn(NameAt(j))

\* the value converts: a number, a timestamp, a nil, or text of a number
Coercible(c) ==
    \/ c.t \in {"int64", "float64", "time", "nil"}
    \/ IsText(c) /\ ~ParseFloat(c.s).err

KeptCell(j)   == Recognised(j) /\ Coercible(CellAt(j))
FailedCell(j) == Recognised(j) /\ ~Coercible(CellAt(j))
NonNullKeptCell(j) == KeptCell(j) /\ CellAt(j).t # "nil"

Kept   == SelectSeq(Flat, KeptCell)
Failed == SelectSeq(Flat, FailedCell)

\* the name of the descriptor compiled for the column of cell j
DescNameAt(j) == <<namespace, arg.ns, metricMaps[arg.ns][NameAt(j)].metric>>

\* the local list nonfatalErrors when the rows loop is left
Appended == ScanRows(metricMap[arg.ns], NSCols, NSRows, 1).errs

IsParseError(e) == e.kind = "parse"
IsUtf8Error(e)  == e.kind = "label utf8"

\* the call went through the rows without a fatal error
NoFatalCause == ~NSAnswer.qerr /\ ~NSAnswer.cerr /\ NSAnswer.end # "scanerr"

\* C5: the samples queryNamespaceMapping sends are, row by row and column by
\* column, those of the recognised value cells that convert; each
\* recognised value cell that does not convert appends exactly one
\* non-fatal error naming its column and nothing else is lost; the call
\* returns these errors and no fatal error unless the query, the column
\* list or a scan fails.
C5_OnlyFailedColumnSkipped ==
    pc = "ns done" =>
        LET kept     == Kept
            failed   == Failed
            appended == SelectSeq(Appended, IsParseError)
        IN  /\ Len(ch) = Len(kept)
            /\ \A i \in 1..Len(kept) : ch[i].desc.name = DescNameAt(kept[i])
            /\ appended = [i \in 1..Len(failed) |-> NonFatal("parse", NameAt(failed[i]))]
            /\ NoFatalCause =>
                  /\ ret.fatal = NoErr
                  /\ SelectSeq(ret.nonfatal, IsParseError) = appended

\* a row whose first value column failed to convert still gave the sample of
\* a later column, the next row gave its samples, one error was returned
C5_Witness ==
    /\ pc = "ns done"
    /\ Len(NSRows) = 2
    /\ \E j1, j2 \in 1..Len(Flat) :
          /\ RowOf(j1) = 1 /\ RowOf(j2) = 1 /\ j1 < j2
          /\ FailedCell(j1) /\ KeptCell(j2)
    /\ \E j \in 1..Len(Flat) : RowOf(j) = 2 /\ KeptCell(j)
    /\ Len(Failed) = 1
    /\ Len(ch) >= 2
    /\ ret.fatal = NoErr
    /\ Len(ret.nonfatal) = 1

\* C8 as stated: a nil in a recognised value column gives no sample and no
\* non-fatal error.
C8_NullSilentlySkipped ==
    pc = "ns done" =>
        /\ Len(ch) = Len(SelectSeq(Flat, NonNullKeptCell))
        /\ \A i \in 1..Len(ch) : ~ch[i].value.nan
        /\ Len(SelectSeq(Appended, IsParseError)) = Len(Failed)

\* C8, as the code has it: a nil in a recognised value column appends no
\* non-fatal error and gives one sample of that column whose value is NaN;
\* no other cell gives a NaN sample.
C8_NullYieldsNaNSample ==
    pc = "ns done" =>
        LET kept == Kept
        IN  /\ Len(ch) = Len(kept)
            /\ \A i \in 1..Len(kept) :
                  /\ ch[i].value.nan <=> CellAt(kept[i]).t = "nil"
                  /\ CellAt(kept[i]).t = "nil" =>
                        /\ ch[i].desc.name = DescNameAt(kept[i])
                        /\ Len(ch[i].labels) = Len(metricMap[arg.ns].labels)
            /\ Len(SelectSeq(Appended, IsParseError))
                 = Cardinality({j \in 1..Len(Flat) :
                                  Recognised(j) /\ CellAt(j).t # "nil" /\ ~Coercible(CellAt(j))})

\* a result set whose only recognised value cell is a nil: one sample, NaN,
\* and no error
C8_Witness ==
    /\ pc = "ns done"
    /\ Len(NSRows) = 1
    /\ Len(Kept) = 1
    /\ CellAt(Kept[1]).t = "nil"
    /\ Len(ch) = 1
    /\ ch[1].value.nan
    /\ Appended = <<>>
    /\ ret = [nonfatal |-> <<>>, fatal |-> NoErr]

\* label p of row k is read from a column whose text is not valid UTF-8
BadUtf8(k, p) ==
    \E idx \in 1..Len(NSCols) :
        /\ NSCols[idx] = metricMap[arg.ns].labels[p]
        /\ NSRows[k][idx].t = "string"
        /\ ~ValidString(NSRows[k][idx].s)

\* C9: each label of each row whose text is not valid UTF-8 appends exactly
\* one non-fatal error naming its column; the samples of that row are all
\* sent and carry "<invalid>" at the position of that label; the call
\* returns these errors and no fatal error unless the query, the column
\* list or a scan fails.
C9_InvalidUtf8Label ==
    pc = "ns done" =>
        LET labels   == metricMap[arg.ns].labels
            kept     == Kept
            appended == SelectSeq(Appended, IsUtf8Error)
        IN  /\ \A p \in 1..Len(labels) :
                  Cardinality({i \in 1..Len(appended) : appended[i].column = labels[p]})
                    = Cardinality({k \in 1..Len(NSRows) : BadUtf8(k, p)})
            /\ Len(ch) = Len(kept)
            /\ \A i \in 1..Len(kept) : \A p \in 1..Len(labels) :
                  BadUtf8(RowOf(kept[i]), p) => ch[i].labels[p] = Invalid
            /\ NoFatalCause =>
                  /\ ret.fatal = NoErr
                  /\ SelectSeq(ret.nonfatal, IsUtf8Error) = appended

\* a row with one label that is not valid UTF-8 gave its sample, with
\* "<invalid>" for that label and the text of the other label, and one error
C9_Witness ==
    /\ pc = "ns done"
    /\ arg.ns = "pools"
    /\ Len(NSRows) = 1
    /\ \E p, q \in 1..Len(metricMap[arg.ns].labels) :
          /\ BadUtf8(1, p) /\ ~BadUtf8(1, q)
          /\ Len(ch) >= 1
          /\ ch[1].labels[p] = Invalid
          /\ ch[1].labels[q] # Invalid /\ ch[1].labels[q] # <<>>
    /\ ret.fatal = NoErr
    /\ Len(SelectSeq(ret.nonfatal, IsUtf8Error)) = 1

\* C10: every sample carries one value per compiled label, in the order of
\* the compiled label list: the text of the column of that name in the
\* sample's row, or the empty text when the result set has no such column;
\* the samples of one row carry the same tuple; and the samples follow the
\* rows, and in a row the columns, of the result set, whatever columns
\* failed to convert.
C10_RowLabelTuple ==
    pc = "ns done" =>
        LET labels == metricMap[arg.ns].labels
            kept   == Kept
            DescOf(idx) == <<namespace, arg.ns, metricMaps[arg.ns][NSCols[idx]].metric>>
        IN  /\ Len(ch) = Len(kept)
            /\ \A i \in 1..Len(kept) :
                  /\ ch[i].desc.labels = labels
                  /\ Len(ch[i].labels) = Len(labels)
                  /\ \A p \in 1..Len(labels) :
                        /\ \A idx \in 1..Len(NSCols) :
                              LET c == NSRows[RowOf(kept[i])][idx]
                              IN  /\ NSCols[idx] = labels[p]
                                  /\ c.t = "string"
                                  /\ ValidString(c.s)
                                  => ch[i].labels[p] = c.s
                        /\ (\A idx \in 1..Len(NSCols) : NSCols[idx] # labels[p])
                              => ch[i].labels[p] = <<>>
            /\ \A i, j \in 1..Len(kept) :
                  RowOf(kept[i]) = RowOf(kept[j]) => ch[i].labels = ch[j].labels
            /\ \A i \in 1..Len(kept) - 1 :
                  /\ RowOf(kept[i]) <= RowOf(kept[i + 1])
                  /\ RowOf(kept[i]) = RowOf(kept[i + 1]) =>
                        \E a, b \in 1..Len(NSCols) :
                            /\ a < b
                            /\ RecognisedColumn(NSCols[a]) /\ RecognisedColumn(NSCols[b])
                            /\ ch[i].desc.name = DescOf(a)
                            /\ ch[i + 1].desc.name = DescOf(b)

\* a pools row (user u, no database column) whose cl_active failed to convert
\* and whose maxwait converted, then a row with both: with the compiled label
\* list (user, database) the three samples carry (u, "")
C10_Witness ==
    /\ pc = "ns done"
    /\ arg.ns = "pools"
    /\ metricMap["pools"].labels = <<"user", "database">>
    /\ Len(NSRows) = 2
    /\ Len(Failed) = 1 /\ RowOf(Failed[1]) = 1
    /\ Len(ch) = 3
    /\ \A i \in 1..3 : ch[i].labels = << <<"u">>, <<>> >>
    /\ ch[1].desc.name[3] = "client_maxwait_seconds"

\* label p of row k is read from a column whose value the label resolution
\* rejects: a type outside the switch, or text that is not valid UTF-8
BadLabel(k, p) ==
    \E idx \in 1..Len(NSCols) :
        /\ NSCols[idx] = metricMap[arg.ns].labels[p]
        /\ \/ NSRows[k][idx].t \notin {"int64", "float64", "string", "nil"}
           \/ NSRows[k][idx].t = "string" /\ ~ValidString(NSRows[k][idx].s)

\* the columns of the result set
ColumnSet == {NSCols[idx] : idx \in 1..Len(NSCols)}

\* C11: a compiled label without a column in the result set has the empty
\* text as its value in every sample; a value column of the registry without
\* a column in the result set has no sample; a column of the result set
\* without a compiled mapping has no sample; and none of the three appends
\* an error: the errors appended are those of the labels and value cells
\* that are present and rejected, one each.
C11_MissingAndExtraColumns ==
    pc = "ns done" =>
        LET labels   == metricMap[arg.ns].labels
            kept     == Kept
            appended == Appended
        IN  /\ Len(ch) = Len(kept)
            /\ \A i \in 1..Len(ch) : \A p \in 1..Len(labels) :
                  labels[p] \notin ColumnSet => ch[i].labels[p] = <<>>
            /\ \A i \in 1..Len(ch) :
                  \E c \in ColumnSet :
                      /\ c \in DOMAIN metricMap[arg.ns].columnMappings
                      /\ ch[i].desc = metricMap[arg.ns].columnMappings[c].desc
            /\ Len(appended)
                 = Cardinality({kp \in (1..Len(NSRows)) \X (1..Len(labels)) :
                                  BadLabel(kp[1], kp[2])})
                   + Len(Failed)
            /\ \A i \in 1..Len(appended) :
                  /\ appended[i].column \in ColumnSet
                  /\ \/ appended[i].column \in DOMAIN metricMap[arg.ns].columnMappings
                     \/ \E p \in 1..Len(labels) : labels[p] = appended[i].column

\* a pools row without a database column and with a column "extra": two
\* samples, the database label empty, no error
C11_Witness ==
    /\ pc = "ns done"
    /\ arg.ns = "pools"
    /\ "extra" \in ColumnSet
    /\ "database" \notin ColumnSet
    /\ Len(NSRows) = 1
    /\ Len(ch) = 2
    /\ \E p \in 1..2 :
          /\ metricMap["pools"].labels[p] = "database"
          /\ ch[1].labels[p] = <<>> /\ ch[2].labels[p] = <<>>
          /\ ch[1].labels[3 - p] = <<"u">>
    /\ ret = [nonfatal |-> <<>>, fatal |-> NoErr]

-----------------------------------------------------------------------------
(* Properties of the list, config and connection-state collectors          *)
(* (SpecFixed)                                                              *)

\* the result set the call under test reads
FixedAnswer == db[arg.kind]
FixedRows   == FixedAnswer.rows

\* the call got its rows: the query and the column list succeeded
GotRows == ~FixedAnswer.qerr /\ ~FixedAnswer.cerr

\* text of a decimal number, told without the parser: an optional minus and
\* digits
NumericText(s) ==
    /\ Len(s) > 0
    /\ \A i \in 1..Len(s) : IsDigit(s[i]) \/ (i = 1 /\ s[i] = "-" /\ Len(s) > 1)

\* the number written by such text
NumberOf(s) ==
    IF s[1] = "-" THEN Float(0 - DigitsToInt(Tail(s)), 1) ELSE Float(DigitsToInt(s), 1)

\* row k of SHOW LISTS has a name of the descriptor map
KnownList(k) == FixedRows[k].list \in DOMAIN listsMap

\* the rows of SHOW LISTS before the first known name with a value that is
\* no number
ListRowsInForce ==
    {k \in 1..Len(FixedRows) :
        \A j \in 1..k : KnownList(j) => NumericText(FixedRows[j].items)}

\* C12 as stated: a row of SHOW LISTS whose name is not in the descriptor
\* map gives no sample, is no error and does not stop the rows after it:
\* the samples are those of the known rows up to the first known row with a
\* bad value, and without such a row and without a scan failure the call
\* returns no error.
C12_UnknownListDropped ==
    (pc = "fixed done" /\ arg.kind = "LISTS" /\ GotRows /\ FixedAnswer.ncols = 2) =>
        /\ Len(ch) = Cardinality({k \in ListRowsInForce : KnownList(k)})
        /\ (ListRowsInForce = 1..Len(FixedRows) /\ FixedAnswer.end # "scanerr")
              => ret.fatal = NoErr

\* the indices of the rows of SHOW LISTS with a known name, in row order
KnownLists == SelectSeq([k \in 1..Len(FixedRows) |-> k], KnownList)

\* C13: on a two-column SHOW LISTS result whose values are all numeric text
\* queryShowLists sends, in row order, one gauge sample without labels per
\* row with a known name, with the descriptor of that name and the number
\* of the row (negative and zero included), and returns no error unless a
\* scan fails.
C13_ListSamples ==
    (/\ pc = "fixed done" /\ arg.kind = "LISTS" /\ GotRows /\ FixedAnswer.ncols = 2
     /\ \A k \in 1..Len(FixedRows) : NumericText(FixedRows[k].items)) =>
        LET known == KnownLists
        IN  /\ Len(ch) = Len(known)
            /\ \A i \in 1..Len(known) :
                  ch[i] = [desc   |-> [name |-> <<namespace, "", listsMap[FixedRows[known[i]].list]>>,
                                       labels |-> <<>>],
                           vtype  |-> "GaugeValue",
                           value  |-> NumberOf(FixedRows[known[i]].items),
                           labels |-> <<>>]
            /\ FixedAnswer.end # "scanerr" => ret.fatal = NoErr

\* the rows (dns_queries, -1), (databases, 0) gave two samples, -1 then 0
C13_Witness ==
    /\ pc = "fixed done"
    /\ arg.kind = "LISTS"
    /\ FixedAnswer.ncols = 2
    /\ Len(FixedRows) = 2
    /\ FixedRows[1] = [list |-> "dns_queries", items |-> <<"-", "1">>]
    /\ FixedRows[2] = [list |-> "databases", items |-> <<"0">>]
    /\ Len(ch) = 2
    /\ ch[1].desc.name[3] = "in_flight_dns_queries" /\ ch[1].value = Float(-1, 1)
    /\ ch[2].desc.name[3] = "databases" /\ ch[2].value = Float(0, 1)
    /\ ret.fatal = NoErr

\* row k of SHOW CONFIG has a key of the allow-list
AllowedKey(k) == FixedRows[k].key \in DOMAIN configMap

\* the rows of SHOW CONFIG before the first allow-listed key with a value
\* that is no number
ConfigRowsInForce ==
    {k \in 1..Len(FixedRows) :
        \A j \in 1..k : AllowedKey(j) => NumericText(FixedRows[j].values)}

AllowedInForce(k) == k \in ConfigRowsInForce /\ AllowedKey(k)

\* the call under test is queryShowConfig on a result of 3 or 4 columns
ConfigCalled ==
    /\ pc = "fixed done" /\ arg.kind = "CONFIG" /\ GotRows
    /\ FixedAnswer.ncols \in {3, 4}

BadConfigRow(k) == AllowedKey(k) /\ ~NumericText(FixedRows[k].values)

ServersCalled ==
    /\ pc = "fixed done" /\ arg.kind = "SERVERS" /\ GotRows
    /\ FixedAnswer.ncols \in {19, 20}
    /\ FixedAnswer.end # "scanerr"

\* the combinations (user, database, state, address, port, close-needed)
\* among the rows
Combinations == {FixedRows[k] : k \in 1..Len(FixedRows)}

\* the label values that stand for a combination
CombinationLabels(c) ==
    <<c.user, c.database, c.state, c.addr \o <<"_">> \o Itoa(c.port),
      IF c.closeNeeded = 1 THEN <<"t", "r", "u", "e">> ELSE <<"f", "a", "l", "s", "e">> >>

RECURSIVE SumOfValues(_, _)
\* the sum of the values of the samples i.. of the channel
SumOfValues(samples, i) ==
    IF i > Len(samples) THEN 0
    ELSE samples[i].value.num + SumOfValues(samples, i + 1)

\* C16: on a SHOW SERVERS result of 19 or 20 columns queryShowServers sends
\* exactly one gauge sample per combination of (user, database, state,
\* address, port, close-needed) among the rows, labelled with it, whose
\* value is the number of rows with that combination; the values sum to the
\* number of rows; the call returns no error.
C16_OneSamplePerCombination ==
    ServersCalled =>
        /\ Len(ch) = Cardinality(Combinations)
        /\ \A c \in Combinations :
              \E i \in 1..Len(ch) :
                  /\ ch[i].desc = serverCountDescription
                  /\ ch[i].vtype = "GaugeValue"
                  /\ ch[i].labels = CombinationLabels(c)
                  /\ ch[i].value =
                        Float(Cardinality({k \in 1..Len(FixedRows) : FixedRows[k] = c}), 1)
        /\ \A i, j \in 1..Len(ch) : ch[i].labels = ch[j].labels => i = j
        /\ SumOfValues(ch, 1) = Len(FixedRows)
        /\ ret.fatal = NoErr

\* two rows with the same combination and 20 columns gave one sample, 2
C16_Witness ==
    /\ pc = "fixed done"
    /\ arg.kind = "SERVERS"
    /\ FixedAnswer.ncols = 20
    /\ FixedAnswer.end = "eof"
    /\ Len(FixedRows) = 2
    /\ FixedRows[1] = FixedRows[2]
    /\ Len(ch) = 1
    /\ ch[1].value = Float(2, 1)
    /\ ret.fatal = NoErr

\* the call under test met a column count it has no case for
UnrecognisedColumnCount ==
    /\ pc = "fixed done" /\ GotRows
    /\ \/ arg.kind = "CONFIG" /\ FixedAnswer.ncols \notin {3, 4}
       \/ arg.kind = "SERVERS" /\ FixedAnswer.ncols \notin {19, 20}

\* C17 as stated: when SHOW CONFIG has a column count other than 3 or 4, or
\* SHOW SERVERS one other than 19 or 20, the collector returns an error and
\* sends no sample.
C17_BadColumnCountIsFatal ==
    UnrecognisedColumnCount => (ret.fatal # NoErr /\ ch = <<>>)

-----------------------------------------------------------------------------
(* Properties of the descriptor compiler with a current version (SpecDesc) *)

Compiled == pc \in {"desc done", "ns done"}

\* a version as one number, major first
VersionNumber(v) == v[1] * 10000 + v[2] * 100 + v[3]

\* the column's minimum version exceeds the current version
Gated(c) == VersionNumber(testMinVersions["database"][c]) > VersionNumber(arg.version)

\* the columns of the registry with one of the usages that are not gated
Ungated(usages) ==
    {c \in DOMAIN testMetricMaps["database"] :
        testMetricMaps["database"][c].usage \in usages /\ ~Gated(c)}

\* C18: makeDescMap with a current version compiles exactly the entries whose
\* minimum version does not exceed it: the label list holds exactly the
\* non-gated LABEL columns, each once; there is exactly one descriptor per
\* non-gated COUNTER or GAUGE column, of the counter resp. gauge kind and
\* with the shared label list; a gated column is neither label nor
\* descriptor; and the collector run on the result emits no sample for it.
\* At version 1.20.1 the result is the one TestMakeDescMap expects.
C18_VersionGating ==
    Compiled =>
        LET m   == metricMap["database"]
            reg == testMetricMaps["database"]
        IN  /\ {m.labels[i] : i \in 1..Len(m.labels)} = Ungated({LABEL})
            /\ Len(m.labels) = Cardinality(Ungated({LABEL}))
            /\ DOMAIN m.columnMappings = Ungated({COUNTER, GAUGE})
            /\ \A c \in DOMAIN m.columnMappings :
                /\ m.columnMappings[c].vtype =
                     (IF reg[c].usage = COUNTER THEN "CounterValue" ELSE "GaugeValue")
                /\ m.columnMappings[c].desc.labels = m.labels
            /\ \A c \in DOMAIN reg :
                Gated(c) =>
                    /\ c \notin DOMAIN m.columnMappings
                    /\ \A i \in 1..Len(m.labels) : m.labels[i] # c
            /\ arg.version = Version(1, 20, 1) =>
                /\ {m.labels[i] : i \in 1..Len(m.labels)} = {"name", "port"}
                /\ DOMAIN m.columnMappings =
                     {"reserve_pool", "current_connections", "total_query_count"}
            /\ pc = "ns done" =>
                \A i \in 1..Len(ch) :
                    /\ Len(ch[i].labels) = Len(m.labels)
                    /\ \A c \in DOMAIN reg :
                        Gated(c) => ch[i].desc.name # <<"foo", "database", reg[c].metric>>

\* the collector has run at version 1.20.1 on a row whose gated pool_size
\* cell is a number, and sent the samples of the columns in force
C18_Witness ==
    /\ pc = "ns done"
    /\ arg.version = Version(1, 20, 1)
    /\ Len(db["database"].rows) > 0
    /\ db["database"].rows[1][4] = Int64(2)
    /\ Len(ch) > 0
    /\ ch[1].labels \in {<<<<"d">>, <<"6">>>>, <<<<"6">>, <<"d">>>>}

-----------------------------------------------------------------------------
(* Properties of the empty-pool filter (SpecFilter) *)

\* every activity column the result set has is zero in row k
EmptyPool(k) ==
    \A i \in 1..Len(NSCols) : NSCols[i] \in activityColumns => NSRows[k][i] = Int64(0)

\* cell j gives a sample: it converts and its row is not passed over
EmittedCell(j) ==
    /\ KeptCell(j)
    /\ (arg.filterEmptyPools /\ arg.ns = "pools") => ~EmptyPool(RowOf(j))

\* C19: with the filter enabled a row of SHOW POOLS whose activity columns
\* are all zero, an absent column counting as zero, yields no sample; with
\* the filter disabled the same row yields its samples; a row with a
\* non-zero activity column yields its samples in both modes. The samples
\* sent are, in order, those of the value cells of the rows not passed over.
C19_EmptyPoolFilter ==
    pc = "ns done" =>
        LET emitted == SelectSeq(Flat, EmittedCell)
        IN  /\ Len(ch) = Len(emitted)
            /\ \A i \in 1..Len(emitted) :
                /\ ch[i].desc.name = DescNameAt(emitted[i])
                /\ ch[i].value = Float(CellAt(emitted[i]).n, 1)
                /\ arg.filterEmptyPools /\ arg.ns = "pools" => ~EmptyPool(RowOf(emitted[i]))
            /\ ~arg.filterEmptyPools => Len(ch) = Len(Kept)

\* the filter is on; the first row has no activity but a non-zero maxwait
\* and is passed over, the second has an active server connection and gave
\* its two samples
C19_Witness ==
    /\ pc = "ns done"
    /\ arg.ns = "pools"
    /\ arg.filterEmptyPools
    /\ NSCols = <<"database", "user", "cl_active", "sv_active", "maxwait">>
    /\ Len(NSRows) = 2
    /\ EmptyPool(1) /\ NSRows[1][5] = Int64(2)
    /\ NSRows[2][3] = Int64(0) /\ NSRows[2][4] = Int64(2)
    /\ Len(ch) = 2

-----------------------------------------------------------------------------
(* Row-iteration errors in the scrape cycle (Spec) *)

\* the answer r gives its rows and then reports an error of rows.Err()
RowsErr(r) == ~r.qerr /\ ~r.cerr /\ r.end = "rowserr"

IsRowsError(e) == e.kind = "rows"

\* the query the cycle ran last
LastQueried == queries[Len(queries)][2]

\* C20: a row-iteration error reported after the rows of a generic result
\* set is non-fatal. The call returns a nil fatal error and a non-fatal list
\* that ends with exactly one error for it, after the errors of the cells
\* that did not convert; the sample of the row read before stays on the
\* channel; the result set is not entered in the error map of the cycle;
\* and a cycle whose only errors are of this kind ends with liveness 1.0.
C20_RowsErrNonFatal ==
    /\ \A n \in DOMAIN metricMap :
          (n \in DOMAIN db /\ RowsErr(db[n])) => n \notin DOMAIN errMap
    /\ (pc = "namespaces" /\ queries # <<>> /\ LastQueried \in DOMAIN metricMap
            /\ RowsErr(db[LastQueried])) =>
          /\ ret.fatal = NoErr
          /\ Len(SelectSeq(ret.nonfatal, IsRowsError)) = 1
          /\ IsRowsError(ret.nonfatal[Len(ret.nonfatal)])
          /\ Len(ret.nonfatal) = (IF LastQueried = "databases" THEN 2 ELSE 1)
          /\ LastQueried # "databases" =>
                /\ ch # <<>>
                /\ ch[Len(ch)].desc.name[2] = LastQueried
                /\ \E i \in 1..Len(ch[Len(ch)].labels) : ch[Len(ch)].labels[i] = <<"p">>
    /\ (pc = "done" /\ ~VersionFailed /\ ~ListsFailed /\ ~ConfigFailed /\ ~ServersFailed
            /\ \A n \in DOMAIN metricMap : ~db[n].qerr /\ db[n].end # "scanerr") =>
          /\ up = 1
          /\ ch[Len(ch)].value = Float(1, 1)

\* a cycle in which SHOW POOLS reported a row-iteration error after its row
\* and nothing else went wrong ended with liveness 1.0, the sample of that
\* row on the channel and an empty error map
C20_Witness ==
    /\ pc = "done"
    /\ ~VersionFailed /\ ~ListsFailed /\ ~ConfigFailed /\ ~ServersFailed
    /\ RowsErr(db["pools"])
    /\ \A n \in DOMAIN metricMap : ~Fatal(db[n])
    /\ DOMAIN errMap = {}
    /\ up = 1
    /\ \E i \in 1..Len(ch) : ch[i].desc.name[2] = "pools"

-----------------------------------------------------------------------------
(* Outcome of queryNamespaceMapping (SpecNS) *)

\* C21: queryNamespaceMapping returns either a fatal error or a list of
\* non-fatal errors, never both: when the query fails, the column list
\* cannot be read or the scan of a row fails it returns a fatal error with an
\* empty non-fatal list, having sent nothing for the first two and only the
\* samples of the rows before the failing one for the third; in every other
\* case the fatal error is nil.
C21_FatalOrNonFatal ==
    pc = "ns done" =>
        /\ (ret.fatal # NoErr) <=> Fatal(NSAnswer)
        /\ ret.fatal # NoErr => ret.nonfatal = <<>>
        /\ (NSAnswer.qerr \/ NSAnswer.cerr) => ch = <<>>
        /\ NSAnswer.qerr => ret.fatal = "error running query on database"
        /\ (~NSAnswer.qerr /\ NSAnswer.cerr) => ret.fatal = "error retrieving column list"
        /\ (~NSAnswer.qerr /\ ~NSAnswer.cerr /\ NSAnswer.end = "scanerr") =>
              /\ ret.fatal = "error retrieving rows"
              /\ Len(ch) = Len(Kept)

\* the scan of the second row failed after the first row had a value that
\* did not convert: the fatal error is returned with an empty list
C21_Witness ==
    /\ pc = "ns done"
    /\ ~NSAnswer.qerr /\ ~NSAnswer.cerr /\ NSAnswer.end = "scanerr"
    /\ Len(NSRows) = 1
    /\ Len(Failed) = 1
    /\ ret.fatal = "error retrieving rows"
    /\ ret.nonfatal = <<>>

-----------------------------------------------------------------------------
(* Properties of concurrent calls on one Exporter (SpecCallers) *)

\* the cycle that asked entry i of the connection's log
CycleOf(i) == <<conn.log[i][1], conn.log[i][2]>>

\* C22 as stated: the connection is owned by one scrape cycle at a time, no
\* cycle issues a query between the first and the last query of another
\* cycle.
C22_CyclesNeverInterleave ==
    \A i, j, k \in 1..Len(conn.log) :
        (i < j /\ j < k /\ CycleOf(i) = CycleOf(k)) => CycleOf(j) = CycleOf(i)

\* the descriptors of the samples the metric channel of t has delivered
DescsOfSent(t) == [i \in 1..Len(threads[t].sent) |-> threads[t].sent[i].desc]

\* what holds of a Describe call at every moment: the descriptors delivered
\* are those of the samples collected so far, in order, but for the one the
\* forwarding goroutine holds; and once Describe has returned, the cycle is
\* complete, its last sample is the liveness sample, and the descriptor of
\* every sample has been delivered
DescribeForwards(t) ==
    /\ Len(threads[t].descs) + Len(threads[t].fwd) = Len(threads[t].sent)
    /\ threads[t].descs = SubSeq(DescsOfSent(t), 1, Len(threads[t].descs))
    /\ threads[t].pc = "returned" =>
          /\ threads[t].out = <<>>
          /\ threads[t].fwd = <<>>
          /\ threads[t].descs = DescsOfSent(t)
          /\ threads[t].descs # <<>>
          /\ threads[t].descs[Len(threads[t].descs)] = scrapeSuccessDesc
          /\ Cardinality({i \in 1..Len(threads[t].descs) :
                            threads[t].descs[i] = scrapeSuccessDesc}) = 1
          /\ Cardinality({i \in 1..Len(conn.log) : conn.log[i][1] = t})
                = 4 + Cardinality(DOMAIN metricMap)

\* C23: Describe runs one full collection cycle and forwards exactly one
\* descriptor per sample of that cycle, the liveness sample included, in
\* emission order; while its caller keeps receiving it terminates, and it
\* returns only after the descriptor of every collected sample has been
\* delivered.
C23_DescribeForwardsAll ==
    /\ []DescribeForwards("c1")
    /\ <>(threads["c1"].pc = "returned")

\* a Describe call has returned after a cycle on a healthy pgbouncer: seven
\* descriptors delivered
C23_Witness ==
    /\ threads["c1"].op = "Describe"
    /\ threads["c1"].pc = "returned"
    /\ db = OkAnswers
    /\ Len(threads["c1"].descs) = 7

-----------------------------------------------------------------------------
(* Properties of the CachedExporter (SpecCached) *)

\* ms is what one finished cycle collected: the samples of one cycle only,
\* the liveness sample last and only there, the version sample first when
\* pgbouncer answers SHOW VERSION
CompleteCycle(ms) ==
    /\ ms # <<>>
    /\ \A i \in 1..Len(ms) : ms[i].cycle = ms[1].cycle
    /\ \A i \in 1..Len(ms) : (ms[i].desc = scrapeSuccessDesc) <=> (i = Len(ms))
    /\ ~db["VERSION"].qerr => ms[1].desc = bouncerVersionDesc
    /\ Len(ms) = Len(queryVersion(db["VERSION"]).samples) + 4
                 + (IF db["pools"].qerr THEN 0 ELSE 1)

\* C27 as stated: when NewCachedExporter returns, the cache has been
\* populated by a completed collection cycle: lastUpdated is set and the
\* metrics are those of a finished cycle.
C27_CachePopulatedOnReturn ==
    threads["main"].pc = "constructed" =>
        (cache.lastUpdated > 0 /\ CompleteCycle(cache.metrics))

\* what CachedExporter.Collect has sent is a snapshot of the cache followed
\* by one cache-age sample
Served(sent) ==
    /\ sent # <<>>
    /\ sent[Len(sent)].desc = FixedDesc("", "cache_age_seconds", <<>>)
    /\ LET ms == SubSeq(sent, 1, Len(sent) - 1)
       IN  \/ ms = <<>> /\ sent[Len(sent)].value = [since |-> 0]
           \/ CompleteCycle(ms) /\ sent[Len(sent)].value.since > 0

\* the cache and the scrapes hold complete snapshots only
SnapshotsComplete ==
    /\ cache.metrics = <<>> <=> cache.lastUpdated = 0
    /\ cache.metrics # <<>> => CompleteCycle(cache.metrics)
    /\ threads["scraper"].pc = "serving" =>
          /\ cache.readers = 1
          /\ threads["scraper"].sent \o threads["scraper"].out = cache.metrics
    /\ (threads["scraper"].pc = "idle" /\ threads["scraper"].cycles > 0) =>
          Served(threads["scraper"].sent)
    /\ Cardinality({t \in Updaters :
                      threads[t].pc \in {"version", "lists", "config", "servers",
                                         "namespaces", "collected"}})
          = (IF cache.updating THEN 1 ELSE 0)

\* an updateCache call that finds an update in progress returns, and changes
\* neither the cache nor the connection
SkipsWhenUpdating ==
    \A t \in Updaters :
        (threads[t].pc = "updateCache" /\ cache.updating /\ threads'[t] # threads[t]) =>
            /\ threads'[t] = [threads[t] EXCEPT !.pc = AfterUpdateCache(t)]
            /\ cache' = cache
            /\ conn' = conn

\* C28: CachedExporter.Collect only serves complete snapshots: what it sends
\* is exactly the samples of one completed cycle, in their collected order,
\* or none before the first update has completed, followed by exactly one
\* cache-age sample, never a mix of two cycles nor a part of one; and an
\* updateCache call that finds another update in progress returns without
\* collecting and without changing the cache.
C28_CompleteSnapshotsOnly ==
    []SnapshotsComplete /\ [][SkipsWhenUpdating]_vars

\* a scrape has been served the complete cycle of the updater while the
\* cache had been filled before by main's cycle
C28_Witness ==
    /\ threads["scraper"].pc = "idle"
    /\ threads["scraper"].cycles = 1
    /\ Len(threads["scraper"].sent) > 1
    /\ threads["scraper"].sent[1].cycle = <<"updater", 1>>
    /\ threads["main"].cycles = 1
    /\ cache.lastUpdated = 2

-----------------------------------------------------------------------------
(* Properties of a cycle over an empty descriptor map (SpecAnyTable)        *)

\* C29: when the compiled descriptor map holds no generic result set, a
\* finished cycle has issued the four fixed queries only and its last sample
\* is the liveness sample with value 0.0, whether or not the version, list,
\* config and connection-state stages failed: zero fatal errors equal zero
\* configured result sets.
C29_EmptyMapIsDown ==
    (pc = "done" /\ DOMAIN metricMap = {}) =>
        /\ queries = StageQueries
        /\ errMap = NoErrors
        /\ up = 0
        /\ IsUp(ch[Len(ch)])
        /\ ch[Len(ch)].value = Float(0, 1)
        /\ \A i \in 1..(Len(ch) - 1) : ~IsUp(ch[i])

\* a cycle over the empty descriptor map in which all four fixed stages
\* succeeded ended with liveness 0.0
C29_Witness ==
    /\ pc = "done"
    /\ DOMAIN metricMap = {}
    /\ ~VersionFailed /\ ~ListsFailed /\ ~ConfigFailed /\ ~ServersFailed
    /\ Len(ch) > 1
    /\ ch[Len(ch)].value = Float(0, 1)

-----------------------------------------------------------------------------
(* The aggregating collector against the generic collector (SpecCall)       *)

\* queryShowServers gives up: the query or the column read failed, or a Scan
\* ran (19 or 20 columns) and failed
ServersGaveUp ==
    \/ FixedAnswer.qerr
    \/ FixedAnswer.cerr
    \/ FixedAnswer.ncols \in {19, 20} /\ FixedAnswer.end = "scanerr"

\* C30: queryShowServers sends its samples only after rows.Next has returned
\* false: when the query, the column read or the Scan of a row fails it
\* returns an error and has sent no sample at all, however many rows it had
\* counted, and otherwise the values it sends sum to the number of rows
\* consumed; queryNamespaceMapping, when the Scan of a row fails, returns its
\* fatal error with the samples of the rows before that row already sent.
C30_ServersAllOrNothing ==
    /\ (pc = "fixed done" /\ arg.kind = "SERVERS") =>
          /\ ServersGaveUp <=> ret.fatal # NoErr
          /\ ServersGaveUp => ch = <<>>
          /\ ~ServersGaveUp =>
                 /\ SumOfValues(ch, 1) = Len(ServerKeys(FixedAnswer))
                 /\ \A i \in 1..Len(ch) : ch[i].desc = serverCountDescription
    /\ (pc = "ns done" /\ ~NSAnswer.qerr /\ ~NSAnswer.cerr /\ NSAnswer.end = "scanerr") =>
          /\ ret.fatal # NoErr
          /\ Len(ch) = Len(Kept)
          /\ \A i \in 1..Len(ch) : ch[i].desc.name = DescNameAt(Kept[i])

\* the Scan of the third row of a 19-column SHOW SERVERS result failed after
\* two rows of different users had been counted: the error is returned and
\* nothing was sent
C30_Witness ==
    /\ pc = "fixed done"
    /\ arg.kind = "SERVERS"
    /\ ~FixedAnswer.qerr /\ ~FixedAnswer.cerr
    /\ FixedAnswer.ncols = 19
    /\ FixedAnswer.end = "scanerr"
    /\ Len(FixedRows) = 2
    /\ FixedRows[1].user # FixedRows[2].user
    /\ ret.fatal = "error retrieving SHOW SERVERS rows"
    /\ ch = <<>>

-----------------------------------------------------------------------------
(* Two scrape cycles on the same Exporter and the same answers (SpecTwice)  *)

\* the samples cycle k sent, in order, without the cycle stamp
SamplesOfCycle(k) ==
    LET mine == SelectSeq(threads["c1"].sent, LAMBDA m : m.cycle = <<"c1", k>>)
    IN  [i \in 1..Len(mine) |->
            Sample(mine[i].desc, mine[i].vtype, mine[i].value, mine[i].labels)]

\* the queries cycle k issued, in order
QueriesOfCycle(k) ==
    LET mine == SelectSeq(conn.log, LAMBDA e : e[2] = k)
    IN  [i \in 1..Len(mine) |-> mine[i][3]]

\* the first two cycles have returned
BothCyclesDone ==
    \/ threads["c1"].cycles > 2
    \/ threads["c1"].cycles = 2 /\ threads["c1"].pc = "returned"

\* how often x occurs in the sequence s
Occurrences(s, x) == Cardinality({i \in 1..Len(s) : s[i] = x})

SameBag(s, t) ==
    /\ Len(s) = Len(t)
    /\ \A i \in 1..Len(s) : Occurrences(s, s[i]) = Occurrences(t, s[i])

\* the samples of generic result set n in the sequence s
SamplesOfNamespace(s, n) ==
    SelectSeq(s, LAMBDA m : m.desc.name[2] = n /\ m.desc # scrapeSuccessDesc)

\* C24, as stated: two cycles on the same descriptor map and the same query
\* results send the same sequence of samples and issue the same sequence of
\* queries.
C24_SameSequences ==
    BothCyclesDone =>
        /\ SamplesOfCycle(1) = SamplesOfCycle(2)
        /\ QueriesOfCycle(1) = QueriesOfCycle(2)

\* C24, as the code has it: the two cycles issue the same queries and send
\* the same samples, each as often, with the four fixed queries first and in
\* the same order and the samples of each generic result set in the same
\* order among themselves; the order of the generic result sets is whatever
\* the range loop over the map picks in that cycle.
C24_SameSamplesAnyOrder ==
    BothCyclesDone =>
        /\ SameBag(SamplesOfCycle(1), SamplesOfCycle(2))
        /\ SameBag(QueriesOfCycle(1), QueriesOfCycle(2))
        /\ SubSeq(QueriesOfCycle(1), 1, 4) = SubSeq(QueriesOfCycle(2), 1, 4)
        /\ \A n \in DOMAIN metricMap :
              SamplesOfNamespace(SamplesOfCycle(1), n) = SamplesOfNamespace(SamplesOfCycle(2), n)

\* two finished cycles on a healthy pgbouncer asked the generic result sets
\* in different orders and sent their samples in different orders
C24_Witness ==
    /\ BothCyclesDone
    /\ db = OkAnswers
    /\ QueriesOfCycle(1) # QueriesOfCycle(2)
    /\ SamplesOfCycle(1) # SamplesOfCycle(2)
    /\ Len(QueriesOfCycle(2)) = 4 + Cardinality(DOMAIN metricMap)

-----------------------------------------------------------------------------
(* Properties of Config.ValidateLabels (SpecConfig)                         *)

\* the merged extra labels of instance i of the configuration
MergedOf(i) == MergedExtraLabels(arg, arg.PgBouncers[i].ExtraLabels)

Instances == 1..Len(arg.PgBouncers)

\* two instances have the same merged label set
RepeatedLabelSet == \E i, j \in Instances : i # j /\ MergedOf(i) = MergedOf(j)

\* some label key is on some but not all instances
UnevenKeys == \E i, j \in Instances : DOMAIN MergedOf(i) # DOMAIN MergedOf(j)

\* C25: ValidateLabels returns an error if and only if two instances have
\* the same merged extra-label set or some label key is present on some but
\* not all instances; it returns nil exactly when the merged label sets are
\* pairwise distinct and all have the same key set.
C25_ValidateLabelsIff ==
    pc = "validated" =>
        ((ret.fatal # NoErr) <=> (RepeatedLabelSet \/ UnevenKeys))

-----------------------------------------------------------------------------
(* Properties of Credentials.UpdateDSN (SpecDSN)                            *)

\* the query parameters of the DSN before and after the call
ParamsBefore == ParseQuery(arg.start.RawQuery)
ParamsAfter  == ParseQuery(arg.dsn.RawQuery)

\* the SSL parameters the credential sets
CredentialTags == DOMAIN Values(arg.c.SSL)

\* C26: after UpdateDSN the user of the DSN is the credential's username;
\* its password is the credential's password, and there is no password at
\* all when the credential's password is empty, whatever the DSN had; every
\* SSL parameter that is non-empty in the credential is in the query with
\* the credential's value as its only value; every other query parameter
\* has the values it had, and none was added; host and path are unchanged.
C26_CredentialOverDSN ==
    pc = "dsn done" =>
        /\ ~arg.dsn.User.nil
        /\ arg.dsn.User.username = arg.c.Username
        /\ arg.dsn.User.password = arg.c.Password
        /\ arg.dsn.User.passwordSet <=> arg.c.Password # ""
        /\ \A f \in DOMAIN arg.c.SSL :
              arg.c.SSL[f] # "" =>
                 /\ sslTags[f] \in DOMAIN ParamsAfter
                 /\ ParamsAfter[sslTags[f]] = <<arg.c.SSL[f]>>
        /\ DOMAIN ParamsAfter \ CredentialTags = DOMAIN ParamsBefore \ CredentialTags
        /\ \A k \in DOMAIN ParamsBefore \ CredentialTags : ParamsAfter[k] = ParamsBefore[k]
        /\ arg.dsn.Host = arg.start.Host
        /\ arg.dsn.Path = arg.start.Path

\* a credential without password and with an SSL mode was applied to a DSN
\* that had a password, sslmode=disable and an application name: the
\* password is gone, the mode replaced, the application name kept
C26_Witness ==
    /\ pc = "dsn done"
    /\ arg.c.Password = ""
    /\ arg.start.User.passwordSet /\ arg.start.User.password = "secret"
    /\ arg.c.SSL.Mode = "verify-full"
    /\ "sslmode" \in DOMAIN ParamsBefore /\ ParamsBefore["sslmode"] = <<"disable">>
    /\ "application_name" \in DOMAIN ParamsBefore
    /\ ParamsAfter["sslmode"] = <<"verify-full">>
    /\ ParamsAfter["application_name"] = ParamsBefore["application_name"]
    /\ ~arg.dsn.User.passwordSet

====
